---- MODULE Spec2Model ----
(***************************************************************************)
(* Model of optparse::OptionParserBase (src/src/optparse): the registry of *)
(* option and argument definitions, the default int formatter, and the     *)
(* single-pass scanner `parse`.                                            *)
(*                                                                         *)
(* Strings of Ch are sequences of character codes, so that the range test  *)
(* of isLabel and the digit arithmetic of strtol are computed as the code  *)
(* computes them.  Vectors keep the code's 0-based indexes: element i of a *)
(* std::vector is element i + 1 of the sequence that models it, and argv   *)
(* is a function on 0 .. n - 1.                                            *)
(***************************************************************************)
EXTENDS Integers, Sequences, FiniteSets, TLC

(***************************************************************************)
(* Characters.                                                             *)
(***************************************************************************)
\* Ch('-')
DASH == 45
\* Ch('.')
DOT == 46
\* Ch('0')
DIGIT0 == 48
\* Ch('9')
DIGIT9 == 57
\* '+', accepted by strtol as a sign
PLUS == 43
\* ' ', skipped by strtol as leading white space
SPACE == 32

(***************************************************************************)
(* Bounds of the model.                                                    *)
(***************************************************************************)
\* longest string handed to isLabel on its own
MaxLen == 2
\* largest argc of a parse call (program name included)
MaxArgc == 4
\* largest number of positional argument definitions
MaxArguments == 2
\* width of `short` in bits (scaled down; less than IntBits)
ShortBits == 4
\* width of `int` in bits (scaled down)
IntBits == 5
\* width of `long` in bits (scaled down; at least IntBits)
LongBits == 7

RECURSIVE Pow2(_)
Pow2(n) == IF n = 0 THEN 1 ELSE 2 * Pow2(n - 1)

INT_MAX == Pow2(IntBits - 1) - 1
INT_MIN == 0 - Pow2(IntBits - 1)
LONG_MAX == Pow2(LongBits - 1) - 1
LONG_MIN == 0 - Pow2(LongBits - 1)

\* The empty String.
EmptyString == <<>>

(***************************************************************************)
(* Exceptions (OptionParserException.h).  One record shape for all kinds:  *)
(* `label` and `value` are empty for the kinds that do not carry them.     *)
(***************************************************************************)
NoException == [kind |-> "none", message |-> "", label |-> EmptyString, value |-> EmptyString]

ConfigException(message) ==
    [kind |-> "ConfigException", message |-> message, label |-> EmptyString, value |-> EmptyString]

TooFewArguments ==
    [kind |-> "TooFewArguments", message |-> "too few arguments", label |-> EmptyString, value |-> EmptyString]

TooManyArguments ==
    [kind |-> "TooManyArguments", message |-> "too many arguments", label |-> EmptyString, value |-> EmptyString]

ValueNeeded(label) ==
    [kind |-> "ValueNeeded", message |-> "needs value", label |-> label, value |-> EmptyString]

\* BadValue(message, label, value)
BadValue3(message, label, value) ==
    [kind |-> "BadValue", message |-> message, label |-> label, value |-> value]

\* BadValue(message, value): the label is the empty String
BadValue2(message, value) ==
    [kind |-> "BadValue", message |-> message, label |-> EmptyString, value |-> value]

UnknownOption(label) ==
    [kind |-> "UnknownOption", message |-> "unknown option", label |-> label, value |-> EmptyString]

HelpNeeded ==
    [kind |-> "HelpNeeded", message |-> "help needed", label |-> EmptyString, value |-> EmptyString]

(***************************************************************************)
(* The classes of the exceptions.  BaseOf gives the direct base class of   *)
(* a class and whether the derivation is public (`class D : B` derives     *)
(* privately).  A handler `catch (H&)` matches an exception of class K if  *)
(* K is H or H is a base class of K reached by public derivations only.    *)
(***************************************************************************)
ExceptionClasses ==
    {"Exception", "ConfigException", "ParsingException", "TooFewArguments",
     "TooManyArguments", "OptionParsingException", "ValueNeeded", "BadValue",
     "UnknownOption", "HelpNeeded"}

BaseOf(class) ==
    CASE class = "ConfigException" -> [base |-> "Exception", public |-> FALSE]
      [] class = "ParsingException" -> [base |-> "Exception", public |-> TRUE]
      [] class = "TooFewArguments" -> [base |-> "ParsingException", public |-> TRUE]
      [] class = "TooManyArguments" -> [base |-> "ParsingException", public |-> TRUE]
      [] class = "OptionParsingException" -> [base |-> "ParsingException", public |-> TRUE]
      [] class = "ValueNeeded" -> [base |-> "OptionParsingException", public |-> TRUE]
      [] class = "BadValue" -> [base |-> "OptionParsingException", public |-> TRUE]
      [] class = "UnknownOption" -> [base |-> "OptionParsingException", public |-> TRUE]
      [] class = "HelpNeeded" -> [base |-> "ParsingException", public |-> TRUE]
      [] OTHER -> [base |-> "", public |-> FALSE]

RECURSIVE HandlerMatches(_, _)
HandlerMatches(handler, class) ==
    IF class = handler THEN TRUE
    ELSE IF class \notin ExceptionClasses THEN FALSE
    ELSE BaseOf(class).public /\ HandlerMatches(handler, BaseOf(class).base)

(***************************************************************************)
(* isLabel.                                                                *)
(***************************************************************************)
\* mutant: the upper end of the digit range is excluded
isLabelDigitRangeShort(label) ==
    IF Len(label) = 0 THEN FALSE
    ELSE IF label[1] # DASH THEN FALSE
    ELSE IF Len(label) = 1 THEN TRUE
    ELSE LET c == label[2] IN c # DOT /\ ~(DIGIT0 <= c /\ c < DIGIT9)

isLabel(label) ==
    IF Len(label) = 0 THEN FALSE
    ELSE IF label[1] # DASH THEN FALSE
    ELSE IF Len(label) = 1 THEN TRUE
    ELSE LET c == label[2] IN c # DOT /\ ~(DIGIT0 <= c /\ c <= DIGIT9)

(***************************************************************************)
(* strtol(str, &end, 10) of the C library, as DefaultFormatter uses it:    *)
(* leading white space, an optional sign, decimal digits.  `end` is the    *)
(* 0-based index of the first character not consumed (0 when there is no   *)
(* digit), `erange` is errno == ERANGE, and the value saturates.           *)
(***************************************************************************)
isspace(c) == c = SPACE \/ (9 <= c /\ c <= 13)

isdigit(c) == DIGIT0 <= c /\ c <= DIGIT9

RECURSIVE SkipSpace(_, _)
SkipSpace(str, i) ==
    IF i < Len(str) /\ isspace(str[i + 1]) THEN SkipSpace(str, i + 1) ELSE i

\* magnitude of the digits from index i on, saturated at limit + 1
RECURSIVE Digits(_, _, _, _)
Digits(str, i, acc, limit) ==
    IF i < Len(str) /\ isdigit(str[i + 1])
    THEN LET d == str[i + 1] - DIGIT0
             next == IF acc > limit \/ acc * 10 + d > limit THEN limit + 1 ELSE acc * 10 + d
         IN Digits(str, i + 1, next, limit)
    ELSE [end |-> i, mag |-> acc]

\* the value, the end pointer and errno, from the digits parsed after `first`
strtolResult(neg, first, limit, r) ==
    IF r.end = first
    THEN [end |-> 0, x |-> 0, erange |-> FALSE]
    ELSE IF r.mag > limit
    THEN [end |-> r.end, x |-> IF neg THEN LONG_MIN ELSE LONG_MAX, erange |-> TRUE]
    ELSE [end |-> r.end, x |-> IF neg THEN 0 - r.mag ELSE r.mag, erange |-> FALSE]

\* the sign at index s, then the digits
strtolSigned(str, neg, first, limit) ==
    strtolResult(neg, first, limit, Digits(str, first, 0, limit))

strtolAt(str, s, neg) ==
    strtolSigned(str, neg,
                 IF s < Len(str) /\ (str[s + 1] = DASH \/ str[s + 1] = PLUS) THEN s + 1 ELSE s,
                 IF neg THEN 0 - LONG_MIN ELSE LONG_MAX)

strtolFrom(str, s) == strtolAt(str, s, s < Len(str) /\ str[s + 1] = DASH)

strtol(str) == strtolFrom(str, SkipSpace(str, 0))

(***************************************************************************)
(* DefaultFormatter< int, char >::operator().  The result is either the    *)
(* converted value or the BadValue it throws.                              *)
(***************************************************************************)
Formatted(x) == [value |-> x, ok |-> TRUE, ex |-> NoException]

Rejected(ex) == [value |-> 0, ok |-> FALSE, ex |-> ex]

\* the checks after `long x = strtol(...)`; r is what strtol returned
IntFromLong(valueStr, r) ==
    IF r.end # Len(valueStr) THEN Rejected(BadValue2("invalid number", valueStr))
    ELSE IF r.erange THEN Rejected(BadValue2("out of range", valueStr))
    ELSE IF r.x > INT_MAX THEN Rejected(BadValue2("out of range", valueStr))
    ELSE IF r.x < INT_MIN THEN Rejected(BadValue2("out of range", valueStr))
    ELSE Formatted(r.x)

DefaultFormatter_int(valueStr) ==
    IF Len(valueStr) = 0 THEN Rejected(BadValue2("invalid number", valueStr))
    ELSE IntFromLong(valueStr, strtol(valueStr))

(***************************************************************************)
(* The integer specialisations of DefaultFormatter, for char and wchar_t.  *)
(* They share one shape and differ in the library function they call, in   *)
(* the checks they make and in one message; FormatterOf is the table of    *)
(* the differences.  The width of long depends on the build: as wide as    *)
(* long long (LP64) or as wide as int (LLP64, 32-bit).                     *)
(***************************************************************************)
\* strtol, strtoll, wcstol, wcstoll for a result of `bits` bits
strtoSignedResult(neg, first, bits, r) ==
    IF r.end = first
    THEN [end |-> 0, x |-> 0, erange |-> FALSE]
    ELSE IF r.mag > (IF neg THEN Pow2(bits - 1) ELSE Pow2(bits - 1) - 1)
    THEN [end |-> r.end,
          x |-> IF neg THEN 0 - Pow2(bits - 1) ELSE Pow2(bits - 1) - 1, erange |-> TRUE]
    ELSE [end |-> r.end, x |-> IF neg THEN 0 - r.mag ELSE r.mag, erange |-> FALSE]

\* strtoul, strtoull, wcstoul, wcstoull: a minus sign negates the value in
\* the unsigned type
strtoUnsignedResult(neg, first, bits, r) ==
    IF r.end = first
    THEN [end |-> 0, x |-> 0, erange |-> FALSE]
    ELSE IF r.mag > Pow2(bits) - 1
    THEN [end |-> r.end, x |-> Pow2(bits) - 1, erange |-> TRUE]
    ELSE [end |-> r.end,
          x |-> IF neg THEN (Pow2(bits) - r.mag) % Pow2(bits) ELSE r.mag, erange |-> FALSE]

strtoAt(str, neg, first, bits, signed) ==
    IF signed
    THEN strtoSignedResult(neg, first, bits,
                           Digits(str, first, 0,
                                  IF neg THEN Pow2(bits - 1) ELSE Pow2(bits - 1) - 1))
    ELSE strtoUnsignedResult(neg, first, bits, Digits(str, first, 0, Pow2(bits) - 1))

strtoFrom(str, s, bits, signed) ==
    strtoAt(str, s < Len(str) /\ str[s + 1] = DASH,
            IF s < Len(str) /\ (str[s + 1] = DASH \/ str[s + 1] = PLUS) THEN s + 1 ELSE s,
            bits, signed)

strto(str, bits, signed) == strtoFrom(str, SkipSpace(str, 0), bits, signed)

IntegerTypes == {"short", "unsigned short", "int", "unsigned int",
                 "long", "unsigned long", "long long", "unsigned long long"}

IsSignedType(T) == T \in {"short", "int", "long", "long long"}

\* the width of the type
BitsOf(T, longIsWide) ==
    CASE T \in {"short", "unsigned short"} -> ShortBits
      [] T \in {"int", "unsigned int"} -> IntBits
      [] T \in {"long", "unsigned long"} -> IF longIsWide THEN LongBits ELSE IntBits
      [] T \in {"long long", "unsigned long long"} -> LongBits

\* std::numeric_limits< T >::max(), min()
MaxOf(T, longIsWide) ==
    IF IsSignedType(T) THEN Pow2(BitsOf(T, longIsWide) - 1) - 1
    ELSE Pow2(BitsOf(T, longIsWide)) - 1

MinOf(T, longIsWide) ==
    IF IsSignedType(T) THEN 0 - Pow2(BitsOf(T, longIsWide) - 1) ELSE 0

\* What the specialisation for T and Ch does:
\*   convBits    the width of the result of the strto* function it calls
\*   errno       whether it tests errno == ERANGE
\*   limits      whether it compares x with the limits of T
\*   dash        where it tests valueStr[0] == '-': before the conversion
\*               (message "invalid integer"), after it ("out of range"), or not
\*   invalid     its message for a string that is no integer
FormatterOf(T, Ch, longIsWide) ==
    [convBits |-> IF T \in {"long long", "unsigned long long"} THEN LongBits
                  ELSE IF longIsWide THEN LongBits ELSE IntBits,
     errno |-> T \notin {"short", "unsigned short"},
     limits |-> T \in {"short", "unsigned short", "int", "unsigned int"},
     dash |-> IF T \in {"unsigned long", "unsigned long long"} THEN "after"
              ELSE IF T = "unsigned int" /\ Ch = "wchar_t" THEN "before"
              ELSE "none",
     invalid |-> IF T = "int" /\ Ch = "char" THEN "invalid number" ELSE "invalid integer"]

\* mutant: the limit of the type itself is refused
IntegerFromConvertedBelowLimit(T, longIsWide, fmt, valueStr, r) ==
    IF r.end # Len(valueStr) THEN Rejected(BadValue2(fmt.invalid, valueStr))
    ELSE IF r.x >= MaxOf(T, longIsWide) THEN Rejected(BadValue2("out of range", valueStr))
    ELSE Formatted(r.x)

\* the checks after the conversion; r is what the strto* function returned
IntegerFromConverted(T, longIsWide, fmt, valueStr, r) ==
    IF r.end # Len(valueStr) THEN Rejected(BadValue2(fmt.invalid, valueStr))
    ELSE IF fmt.errno /\ r.erange THEN Rejected(BadValue2("out of range", valueStr))
    ELSE IF fmt.limits /\ r.x > MaxOf(T, longIsWide)
    THEN Rejected(BadValue2("out of range", valueStr))
    ELSE IF fmt.limits /\ IsSignedType(T) /\ r.x < MinOf(T, longIsWide)
    THEN Rejected(BadValue2("out of range", valueStr))
    ELSE IF fmt.dash = "after" /\ valueStr[1] = DASH
    THEN Rejected(BadValue2("out of range", valueStr))
    ELSE Formatted(r.x)

IntegerFormatterWith(T, longIsWide, fmt, valueStr) ==
    IF Len(valueStr) = 0 THEN Rejected(BadValue2(fmt.invalid, valueStr))
    ELSE IF fmt.dash = "before" /\ valueStr[1] = DASH
    THEN Rejected(BadValue2(fmt.invalid, valueStr))
    ELSE IntegerFromConverted(T, longIsWide, fmt, valueStr,
                              strto(valueStr, fmt.convBits, IsSignedType(T)))

\* DefaultFormatter< T, Ch >::operator()(valueStr), T an integer type
DefaultFormatter_integer(T, Ch, longIsWide, valueStr) ==
    IntegerFormatterWith(T, longIsWide, FormatterOf(T, Ch, longIsWide), valueStr)

(***************************************************************************)
(* strtod and the floating-point specialisations.  strtod accepts leading  *)
(* white space, an optional sign, then a decimal number with an optional   *)
(* exponent, or "inf", "infinity" or "nan" in any case.  (Hexadecimal      *)
(* numbers and "nan(...)" are left out; no input of the model has them.)   *)
(* The value is kept as its sign, its kind and a decimal order of          *)
(* magnitude, which is what the checks of the formatters look at.          *)
(***************************************************************************)
\* largest decimal exponent of a finite double and of a finite float
DBL_MAX_10_EXP == 308
FLT_MAX_10_EXP == 38

tolower(c) == IF 65 <= c /\ c <= 90 THEN c + 32 ELSE c

\* "inf", "infinity", "nan"
WordInf == <<105, 110, 102>>
WordInfinity == <<105, 110, 102, 105, 110, 105, 116, 121>>
WordNan == <<110, 97, 110>>

\* word stands at index i of str, in any case
WordAt(str, i, word) ==
    /\ i + Len(word) <= Len(str)
    /\ \A k \in 1 .. Len(word) : tolower(str[i + k]) = word[k]

\* index of the first character from i on that is no digit
RECURSIVE DigitsEnd(_, _)
DigitsEnd(str, i) ==
    IF i < Len(str) /\ isdigit(str[i + 1]) THEN DigitsEnd(str, i + 1) ELSE i

\* all characters of str from index i up to j are '0'
AllZero(str, i, j) == \A k \in i + 1 .. j : str[k] = DIGIT0

NoDouble == [kind |-> "zero", end |-> 0, neg |-> FALSE, erange |-> FALSE, exp10 |-> 0]

\* a decimal number that ends at `end`: isZero, or of the order 10^exp10
strtodValue(neg, end, isZero, exp10) ==
    IF isZero THEN [kind |-> "zero", end |-> end, neg |-> neg, erange |-> FALSE, exp10 |-> 0]
    ELSE IF exp10 > DBL_MAX_10_EXP
    THEN [kind |-> "inf", end |-> end, neg |-> neg, erange |-> TRUE, exp10 |-> exp10]
    ELSE [kind |-> "finite", end |-> end, neg |-> neg, erange |-> FALSE, exp10 |-> exp10]

\* the exponent part at index i2, its digits from ds to i3 (none if i3 = ds)
strtodExponent(str, neg, i2, ds, i3, expNeg, isZero, order) ==
    IF i3 = ds THEN strtodValue(neg, i2, isZero, order)
    ELSE strtodValue(neg, i3, isZero,
                     order + (IF expNeg THEN 0 - Digits(str, ds, 0, 999).mag
                              ELSE Digits(str, ds, 0, 999).mag))

strtodAfterMantissa(str, neg, i2, ds, isZero, order) ==
    strtodExponent(str, neg, i2, ds, DigitsEnd(str, ds),
                   i2 + 1 < Len(str) /\ str[i2 + 2] = DASH, isZero, order)

\* the mantissa: digits from p to i1, then, with a point, digits up to i2
strtodMantissa(str, neg, p, i1, hasDot, i2) ==
    IF (i1 - p) + (IF hasDot THEN i2 - i1 - 1 ELSE 0) = 0 THEN NoDouble
    ELSE IF i2 < Len(str) /\ tolower(str[i2 + 1]) = 101
    THEN strtodAfterMantissa(
             str, neg, i2,
             IF i2 + 1 < Len(str) /\ (str[i2 + 2] = DASH \/ str[i2 + 2] = PLUS)
             THEN i2 + 2 ELSE i2 + 1,
             AllZero(str, p, i1) /\ (hasDot => AllZero(str, i1 + 1, i2)),
             IF AllZero(str, p, i1) THEN 0 - 1 ELSE i1 - p - 1)
    ELSE strtodValue(neg, i2,
                     AllZero(str, p, i1) /\ (hasDot => AllZero(str, i1 + 1, i2)),
                     IF AllZero(str, p, i1) THEN 0 - 1 ELSE i1 - p - 1)

strtodDecimal(str, neg, p, i1) ==
    strtodMantissa(str, neg, p, i1, i1 < Len(str) /\ str[i1 + 1] = DOT,
                   IF i1 < Len(str) /\ str[i1 + 1] = DOT THEN DigitsEnd(str, i1 + 1) ELSE i1)

strtodAt(str, neg, p) ==
    IF WordAt(str, p, WordInfinity)
    THEN [kind |-> "inf", end |-> p + 8, neg |-> neg, erange |-> FALSE, exp10 |-> 0]
    ELSE IF WordAt(str, p, WordInf)
    THEN [kind |-> "inf", end |-> p + 3, neg |-> neg, erange |-> FALSE, exp10 |-> 0]
    ELSE IF WordAt(str, p, WordNan)
    THEN [kind |-> "nan", end |-> p + 3, neg |-> neg, erange |-> FALSE, exp10 |-> 0]
    ELSE strtodDecimal(str, neg, p, DigitsEnd(str, p))

strtodFrom(str, s) ==
    strtodAt(str, s < Len(str) /\ str[s + 1] = DASH,
             IF s < Len(str) /\ (str[s + 1] = DASH \/ str[s + 1] = PLUS) THEN s + 1 ELSE s)

strtod(str) == strtodFrom(str, SkipSpace(str, 0))

\* the checks of DefaultFormatter< double, Ch > after strtod
DoubleFromConverted(valueStr, r) ==
    IF r.end # Len(valueStr) THEN Rejected(BadValue2("invalid number", valueStr))
    ELSE IF r.erange THEN Rejected(BadValue2("out of range", valueStr))
    ELSE Formatted([kind |-> r.kind, neg |-> r.neg, exp10 |-> r.exp10])

DefaultFormatter_double(valueStr) ==
    IF Len(valueStr) = 0 THEN Rejected(BadValue2("invalid number", valueStr))
    ELSE DoubleFromConverted(valueStr, strtod(valueStr))

\* the checks of DefaultFormatter< float, Ch > after strtod: x is compared
\* with the largest and the lowest float; a NaN passes both comparisons
FloatFromConverted(valueStr, r) ==
    IF r.end # Len(valueStr) THEN Rejected(BadValue2("invalid number", valueStr))
    ELSE IF ~r.neg /\ (r.kind = "inf" \/ (r.kind = "finite" /\ r.exp10 > FLT_MAX_10_EXP))
    THEN Rejected(BadValue2("out of range", valueStr))
    ELSE IF r.neg /\ (r.kind = "inf" \/ (r.kind = "finite" /\ r.exp10 > FLT_MAX_10_EXP))
    THEN Rejected(BadValue2("out of range", valueStr))
    ELSE Formatted([kind |-> r.kind, neg |-> r.neg, exp10 |-> r.exp10])

DefaultFormatter_float(valueStr) ==
    IF Len(valueStr) = 0 THEN Rejected(BadValue2("invalid number", valueStr))
    ELSE FloatFromConverted(valueStr, strtod(valueStr))

\* DefaultFormatter< T, Ch >::operator()(valueStr) for a numeric T
DefaultFormatter(T, Ch, longIsWide, valueStr) ==
    CASE T = "double" -> DefaultFormatter_double(valueStr)
      [] T = "float" -> DefaultFormatter_float(valueStr)
      [] OTHER -> DefaultFormatter_integer(T, Ch, longIsWide, valueStr)

(***************************************************************************)
(* A caller-supplied Format (the contract of the class comment: it returns *)
(* the value or throws BadValue).  This one gives the size of the string,  *)
(* as formatCustom of the tests does, and rejects strings longer than one  *)
(* character with a BadValue that names a label of its own, "c".           *)
(***************************************************************************)
CustomFormat(valueStr) ==
    IF Len(valueStr) > 1 THEN Rejected(BadValue3("too long", <<99>>, valueStr))
    ELSE Formatted(Len(valueStr))

\* this->format(value)
Format(format, valueStr) ==
    IF format = "custom" THEN CustomFormat(valueStr) ELSE DefaultFormatter_int(valueStr)

(***************************************************************************)
(* The options container Opt.  It is caller-defined; the model uses the    *)
(* shape of the test fixtures: int fields written through member pointers  *)
(* (i by an option, a by an argument), a field C written with a constant,  *)
(* and fields written by the callbacks setFn, setFlag and setFa.           *)
(***************************************************************************)
DefaultOptions == [i |-> 0, C |-> 0, fn |-> 0, flag |-> FALSE, a |-> 0, fa |-> 0]

\* Outcome of applying a definition: the container afterwards, or the
\* exception that left the call (the container is then as it was).
Applied(opts) == [thrown |-> NoException, options |-> opts]

Threw(ex, opts) == [thrown |-> ex, options |-> opts]

\* void (*f)(SupOpt&, const T&)
CallValueFunction(f, opts, x) ==
    CASE f = "setFn" -> Applied([opts EXCEPT !.fn = x])
      [] f = "setFa" -> Applied([opts EXCEPT !.fa = x])

\* mutant: no callback throws
CallFunctionNeverThrows(f, opts) ==
    CASE f = "setFlag" -> Applied([opts EXCEPT !.flag = TRUE])
      [] f = "triggerHelp" -> Applied(opts)

\* void (*f)(SupOpt&)
CallFunction(f, opts) ==
    CASE f = "setFlag" -> Applied([opts EXCEPT !.flag = TRUE])
      [] f = "triggerHelp" -> Threw(HelpNeeded, opts)

(***************************************************************************)
(* Option definitions.  `kind` is the dynamic class of the object.         *)
(***************************************************************************)
NullOption ==
    [kind |-> "null", label |-> EmptyString, format |-> "", f |-> "",
     description |-> "", valueName |-> "", field |-> "", constant |-> 0]

MemberOption(label, name, description, field, format) ==
    [kind |-> "MemberOption", label |-> label, format |-> format,
     f |-> "", description |-> description, valueName |-> name, field |-> field, constant |-> 0]

ConstMemberOption(label, description, field, constant) ==
    [kind |-> "ConstMemberOption", label |-> label, format |-> "",
     f |-> "", description |-> description, valueName |-> "", field |-> field, constant |-> constant]

FunctionOption(label, name, description, f, format) ==
    [kind |-> "FunctionOption", label |-> label, format |-> format,
     f |-> f, description |-> description, valueName |-> name, field |-> "", constant |-> 0]

ConstFunctionOption(label, description, f) ==
    [kind |-> "ConstFunctionOption", label |-> label, format |-> "",
     f |-> f, description |-> description, valueName |-> "", field |-> "", constant |-> 0]

\* the classes derived from ValueOption
IsValueOption(pOption) == pOption.kind \in {"MemberOption", "FunctionOption"}

\* mutant: every option claims to need no value
needsValueNever(pOption) == FALSE

\* virtual bool needsValue() const
needsValue(pOption) == IF IsValueOption(pOption) THEN TRUE ELSE FALSE

\* virtual const String& getValueName() const
getValueName(pOption) == IF IsValueOption(pOption) THEN pOption.valueName ELSE ""

\* mutant: a field that has been written is not written again
AssignFormattedOnce(who, field, opts, value, r) ==
    IF ~r.ok THEN Threw(BadValue3(r.ex.message, who, value), opts)
    ELSE IF opts[field] # DefaultOptions[field] THEN Applied(opts)
    ELSE Applied([opts EXCEPT ![field] = r.value])

\* `options.*field = format(value)` in its try block; r is what format
\* returned or threw, `who` the label or name the catch block attaches
AssignFormatted(who, field, opts, value, r) ==
    IF r.ok THEN Applied([opts EXCEPT ![field] = r.value])
    ELSE Threw(BadValue3(r.ex.message, who, value), opts)

\* `f(options, format(value))` in its try block
PassFormatted(who, f, opts, value, r) ==
    IF r.ok THEN CallValueFunction(f, opts, r.value)
    ELSE Threw(BadValue3(r.ex.message, who, value), opts)

\* the same without the catch block
AssignFormattedNoCatch(field, opts, r) ==
    IF r.ok THEN Applied([opts EXCEPT ![field] = r.value]) ELSE Threw(r.ex, opts)

PassFormattedNoCatch(f, opts, r) ==
    IF r.ok THEN CallValueFunction(f, opts, r.value) ELSE Threw(r.ex, opts)

\* mutant: the BadValue of the formatter is passed on as thrown
OptionApplyValueNoCatch(pOption, opts, value) ==
    CASE pOption.kind = "MemberOption" ->
           AssignFormattedNoCatch(pOption.field, opts, Format(pOption.format, value))
      [] pOption.kind = "FunctionOption" ->
           PassFormattedNoCatch(pOption.f, opts, Format(pOption.format, value))
      [] OTHER -> Threw(BadValue2("no value needed", pOption.label), opts)

\* virtual void operator ()(Opt& options, const String& value)
OptionApplyValue(pOption, opts, value) ==
    CASE pOption.kind = "MemberOption" ->
           AssignFormatted(pOption.label, pOption.field, opts, value,
                           Format(pOption.format, value))
      [] pOption.kind = "FunctionOption" ->
           PassFormatted(pOption.label, pOption.f, opts, value,
                         Format(pOption.format, value))
      [] OTHER -> Threw(BadValue2("no value needed", pOption.label), opts)

\* mutant: an option that takes a value does nothing when given none
OptionApplyNoValueNeeded(pOption, opts) ==
    CASE pOption.kind = "ConstMemberOption" ->
           Applied([opts EXCEPT ![pOption.field] = pOption.constant])
      [] pOption.kind = "ConstFunctionOption" -> CallFunction(pOption.f, opts)
      [] OTHER -> Applied(opts)

\* virtual void operator ()(Opt& options)
OptionApply(pOption, opts) ==
    CASE pOption.kind = "ConstMemberOption" ->
           Applied([opts EXCEPT ![pOption.field] = pOption.constant])
      [] pOption.kind = "ConstFunctionOption" -> CallFunction(pOption.f, opts)
      [] OTHER -> Threw(ValueNeeded(pOption.label), opts)

(***************************************************************************)
(* Argument definitions.                                                   *)
(***************************************************************************)
MemberArgument(name, description, field, format) ==
    [kind |-> "MemberArgument", format |-> format, f |-> "",
     description |-> description, field |-> field, name |-> name]

FunctionArgument(name, description, f, format) ==
    [kind |-> "FunctionArgument", format |-> format, f |-> f,
     description |-> description, field |-> "", name |-> name]

\* virtual void operator ()(Opt& options, const String& value)
ArgumentApplyValue(posArg, opts, value) ==
    CASE posArg.kind = "MemberArgument" ->
           AssignFormatted(posArg.name, posArg.field, opts, value,
                           Format(posArg.format, value))
      [] posArg.kind = "FunctionArgument" ->
           PassFormatted(posArg.name, posArg.f, opts, value,
                         Format(posArg.format, value))

(***************************************************************************)
(* Inputs of the model.                                                    *)
(***************************************************************************)
\* "-n": the label the caller registers; "-5": a label it may try
LabelN == <<DASH, 110>>
LabelDigit == <<DASH, 53>>
RegLabels == {LabelN, LabelDigit}

\* "-nv": label-shaped, never registered, has "-n" as a prefix
TokenNV == <<DASH, 110, 118>>
\* "5", "-5": decimal numerals; "ab": not a numeral
Token5 == <<53>>
TokenNeg5 == <<DASH, 53>>
TokenAB == <<97, 98>>

\* tokens after the program name
Tokens == {LabelN, TokenNV, Token5, TokenNeg5, TokenAB}

\* "p", "q": program names
ProgNames == {<<112>>, <<113>>}

ValueNames == {"N"}
Descriptions == {"desc"}
\* "x": display name of an argument
ArgumentNames == {<<120>>}
Constants == {1}

\* strings handed to isLabel on its own
LabelAlphabet == {DASH, DOT, DIGIT0 - 1, DIGIT0, 53, DIGIT9, DIGIT9 + 1, 110}
LabelStrings == UNION {[1 .. n -> LabelAlphabet] : n \in 0 .. MaxLen}

\* argument vectors: argv[0] is the program name
ArgVectors ==
    [n \in 1 .. MaxArgc |->
        {av \in [0 .. n - 1 -> Tokens \cup ProgNames] :
            /\ av[0] \in ProgNames
            /\ \A k \in 1 .. n - 1 : av[k] \in Tokens}]

(***************************************************************************)
(* State.                                                                  *)
(***************************************************************************)
VARIABLES
    optionList,   \* std::vector< OptionPtr >
    optionMap,    \* std::map< String, IndexedOptionPtr >: label -> [first, second]
    arguments,    \* std::vector< ArgumentPtr >
    programName,  \* String, empty by default
    pc,           \* "idle", or the position of the parse call: "scan", "done", "failed"
    argc,         \* parameters of the parse call
    argv,
    argI,         \* locals of the parse call
    nextPos,
    options,
    result,       \* the Opt the call returned, NoRecord if none
    thrown,       \* the exception that left the last call, NoException if none
    invoked,      \* history: the definitions parse invoked, in order
    called,       \* history: some parse call has assigned programName
    lblIn,        \* the string given to a stand-alone isLabel call
    lblOut,       \* its result as a one-element sequence, empty before the call
    second,       \* a parse call on a second thread: its position, parameters, outcome
    conv,         \* a stand-alone call of a DefaultFormatter: its input and result
    earlier       \* history: tokens and outcome of the parse call before this one

vars == <<optionList, optionMap, arguments, programName, pc, argc, argv, argI,
          nextPos, options, result, thrown, invoked, called, lblIn, lblOut,
          second, conv, earlier>>

registry == <<optionList, optionMap, arguments>>
callState == <<pc, argc, argv, argI, nextPos, options, result, invoked>>
labelProbe == <<lblIn, lblOut>>

NoRecord == [none |-> TRUE]
NoArgs == [k \in {} |-> EmptyString]

\* no call on the second thread
SecondIdle == [thrown |-> NoException, pc |-> "idle", argv |-> NoArgs, result |-> NoRecord]

\* no stand-alone call of a formatter
NoConversion ==
    [valueStr |-> EmptyString, T |-> "none", longIsWide |-> TRUE, Ch |-> "char", out |-> <<>>]

\* no parse call came before
NoEarlier == [thrown |-> NoException, argv |-> NoArgs, result |-> NoRecord]

Init ==
    /\ optionList = <<>>
    /\ optionMap = [l \in {} |-> NullOption]
    /\ arguments = <<>>
    /\ programName = EmptyString
    /\ pc = "idle"
    /\ argc = 0
    /\ argv = NoArgs
    /\ argI = 0
    /\ nextPos = 0
    /\ options = DefaultOptions
    /\ result = NoRecord
    /\ thrown = NoException
    /\ invoked = <<>>
    /\ called = FALSE
    /\ lblIn = EmptyString
    /\ lblOut = <<>>
    /\ second = SecondIdle
    /\ conv = NoConversion
    /\ earlier = NoEarlier

(***************************************************************************)
(* Registry operations.                                                    *)
(***************************************************************************)
\* mutant: every label passes
verifyLabelAcceptsAll(label) == NoException

\* static void verifyLabel(label): the exception it throws, if any
verifyLabel(label) ==
    IF ~isLabel(label)
    THEN ConfigException("option label must start with dash (-)")
    ELSE NoException

\* mutant: any registered option whose label is a prefix of the token matches
findOptionByPrefix(label) ==
    LET hits == {l \in DOMAIN optionMap :
                    Len(l) <= Len(label) /\ SubSeq(label, 1, Len(l)) = l}
    IN IF hits # {} THEN optionMap[CHOOSE l \in hits : TRUE].second ELSE NullOption

\* OptionPtr findOption(label): NullOption is the null pointer
findOption(label) ==
    IF label \in DOMAIN optionMap THEN optionMap[label].second ELSE NullOption

\* mutant: a replacement reaches the list, the map keeps the earlier option
addOptionKeepsOldInMap(label, pOption) ==
    IF verifyLabel(label) # NoException
    THEN [thrown |-> verifyLabel(label), optionList |-> optionList, optionMap |-> optionMap]
    ELSE IF label \in DOMAIN optionMap
    THEN [thrown |-> NoException,
          optionList |-> [optionList EXCEPT ![optionMap[label].first + 1] = pOption],
          optionMap |-> optionMap]
    ELSE [thrown |-> NoException,
          optionList |-> Append(optionList, pOption),
          optionMap |-> [l \in DOMAIN optionMap \cup {label} |->
                            IF l = label
                            THEN [first |-> Len(optionList), second |-> pOption]
                            ELSE optionMap[l]]]

\* mutant: a replacement removes the earlier option and appends the new one
addOptionReplaceMovesToEnd(label, pOption) ==
    IF verifyLabel(label) # NoException
    THEN [thrown |-> verifyLabel(label), optionList |-> optionList, optionMap |-> optionMap]
    ELSE [thrown |-> NoException,
          optionList |->
              Append(SelectSeq(optionList, LAMBDA o : o.label # label), pOption),
          optionMap |->
              [l \in DOMAIN optionMap \cup {label} |->
                  IF l = label
                  THEN [first |-> Len(SelectSeq(optionList, LAMBDA o : o.label # label)),
                        second |-> pOption]
                  ELSE [first |-> Len(SelectSeq(
                                     SubSeq(optionList, 1, optionMap[l].first),
                                     LAMBDA o : o.label # label)),
                        second |-> optionMap[l].second]]]

\* mutant: the lookup is optionMap[label], which inserts a label it misses
optionMapAfterSubscript(label) ==
    [l \in DOMAIN optionMap \cup {label} |->
        IF l \in DOMAIN optionMap THEN optionMap[l]
        ELSE [first |-> 0, second |-> NullOption]]

\* the map after this->optionMap.find(label): find inserts nothing
optionMapAfterFind(label) == optionMap

\* void addOption(label, pOption): the registry afterwards and the exception
addOption(label, pOption) ==
    IF verifyLabel(label) # NoException
    THEN [thrown |-> verifyLabel(label), optionList |-> optionList, optionMap |-> optionMap]
    ELSE IF label \in DOMAIN optionMap
    THEN \* replaces an existing option
         LET i == optionMap[label].first
         IN [thrown |-> NoException,
             optionList |-> [optionList EXCEPT ![i + 1] = pOption],
             optionMap |-> [optionMap EXCEPT ![label] = [first |-> i, second |-> pOption]]]
    ELSE \* new option
         [thrown |-> NoException,
          optionList |-> Append(optionList, pOption),
          optionMap |-> [l \in DOMAIN optionMap \cup {label} |->
                            IF l = label
                            THEN [first |-> Len(optionList), second |-> pOption]
                            ELSE optionMap[l]]]

getOptionCount == Len(optionList)

getOption(i) == optionList[i + 1]

getArgumentCount == Len(arguments)

getArgument(i) == arguments[i + 1]

\* No call is on the stack and the caller holds no outcome of a parse call:
\* it may call any operation of the parser.
Idle == pc = "idle"

Register(label, pOption) ==
    /\ Idle
    /\ LET r == addOption(label, pOption)
       IN /\ optionList' = r.optionList
          /\ optionMap' = r.optionMap
          /\ thrown' = r.thrown
    /\ UNCHANGED <<arguments, programName, callState, called, labelProbe, earlier, second, conv>>

\* addOption(label, name, description, field[, format])
AddMemberOption ==
    \E label \in RegLabels, name \in ValueNames, description \in Descriptions,
       format \in {"DefaultFormatter", "custom"} :
        Register(label, MemberOption(label, name, description, "i", format))

\* addOption(label, description, field, constant)
AddConstMemberOption ==
    \E label \in RegLabels, description \in Descriptions, constant \in Constants :
        Register(label, ConstMemberOption(label, description, "C", constant))

\* addOption(label, name, description, f)
AddFunctionOption ==
    \E label \in RegLabels, name \in ValueNames, description \in Descriptions :
        Register(label, FunctionOption(label, name, description, "setFn", "DefaultFormatter"))

\* addOption(label, description, f)
AddConstFunctionOption ==
    \E label \in RegLabels, description \in Descriptions, f \in {"setFlag", "triggerHelp"} :
        Register(label, ConstFunctionOption(label, description, f))

\* the definitions the five shapes of addOption build for a label
OptionShapes(label) ==
    {MemberOption(label, name, description, "i", format) :
        name \in ValueNames, description \in Descriptions,
        format \in {"DefaultFormatter", "custom"}}
    \cup {ConstMemberOption(label, description, "C", constant) :
        description \in Descriptions, constant \in Constants}
    \cup {FunctionOption(label, name, description, "setFn", "DefaultFormatter") :
        name \in ValueNames, description \in Descriptions}
    \cup {ConstFunctionOption(label, description, f) :
        description \in Descriptions, f \in {"setFlag", "triggerHelp"}}

appendArgument(pArg) ==
    /\ Idle
    /\ Len(arguments) < MaxArguments
    /\ arguments' = Append(arguments, pArg)
    /\ thrown' = NoException
    /\ UNCHANGED <<optionList, optionMap, programName, callState, called, labelProbe, earlier, second, conv>>

\* appendArgument(name, description, field)
AppendMemberArgument ==
    \E name \in ArgumentNames, description \in Descriptions :
        appendArgument(MemberArgument(name, description, "a", "DefaultFormatter"))

\* appendArgument(name, description, f)
AppendFunctionArgument ==
    \E name \in ArgumentNames, description \in Descriptions :
        appendArgument(FunctionArgument(name, description, "setFa", "DefaultFormatter"))

(***************************************************************************)
(* parse.  ParseIteration is one pass through the body of the while loop,  *)
(* from the values of the locals at its head: the locals afterwards, the   *)
(* exception that left the loop (if any), and the definitions invoked.     *)
(***************************************************************************)
\* history record of one invocation of a definition on the token at `tok`
Invocation(tok, def, index, hasValue, value) ==
    [value |-> value, tok |-> tok, def |-> def, index |-> index, hasValue |-> hasValue]

Iteration(ex, aI, nP, opts, calls) ==
    [thrown |-> ex, options |-> opts, argI |-> aI, nextPos |-> nP, calls |-> calls]

\* r is the outcome of the invocation `call`: the exception leaves the loop
\* with argI as it is (aIThrow), otherwise the loop goes on at aINext
AfterInvocation(r, call, aIThrow, aINext, nP) ==
    IF r.thrown # NoException
    THEN Iteration(r.thrown, aIThrow, nP, r.options, <<call>>)
    ELSE Iteration(NoException, aINext, nP, r.options, <<call>>)

\* mutant: an unknown option is passed over and the scan goes on
ProcessOptionIgnoresUnknown(label, pOption, aI, nP, opts) ==
    IF pOption # NullOption
    THEN IF needsValue(pOption)
         THEN IF aI + 1 < argc
              THEN AfterInvocation(
                       OptionApplyValue(pOption, opts, argv[aI + 1]),
                       Invocation(aI, "option", optionMap[label].first, TRUE, argv[aI + 1]),
                       aI + 1, aI + 2, nP)
              ELSE Iteration(ValueNeeded(label), aI, nP, opts, <<>>)
         ELSE AfterInvocation(
                  OptionApply(pOption, opts),
                  Invocation(aI, "option", optionMap[label].first, FALSE, EmptyString),
                  aI, aI + 1, nP)
    ELSE Iteration(NoException, aI + 1, nP, opts, <<>>)

\* mutant: the value of an option is scanned again as a token of its own
ProcessOptionRescansValue(label, pOption, aI, nP, opts) ==
    IF pOption # NullOption
    THEN IF needsValue(pOption)
         THEN IF aI + 1 < argc
              THEN AfterInvocation(
                       OptionApplyValue(pOption, opts, argv[aI + 1]),
                       Invocation(aI, "option", optionMap[label].first, TRUE, argv[aI + 1]),
                       aI + 1, aI + 1, nP)
              ELSE Iteration(ValueNeeded(label), aI, nP, opts, <<>>)
         ELSE AfterInvocation(
                  OptionApply(pOption, opts),
                  Invocation(aI, "option", optionMap[label].first, FALSE, EmptyString),
                  aI, aI + 1, nP)
    ELSE Iteration(UnknownOption(label), aI, nP, opts, <<>>)

\* mutant: after an option the positional arguments start over
ProcessOptionRestartsPositionals(label, pOption, aI, nP, opts) ==
    IF pOption # NullOption
    THEN IF needsValue(pOption)
         THEN IF aI + 1 < argc
              THEN AfterInvocation(
                       OptionApplyValue(pOption, opts, argv[aI + 1]),
                       Invocation(aI, "option", optionMap[label].first, TRUE, argv[aI + 1]),
                       aI + 1, aI + 2, 0)
              ELSE Iteration(ValueNeeded(label), aI, nP, opts, <<>>)
         ELSE AfterInvocation(
                  OptionApply(pOption, opts),
                  Invocation(aI, "option", optionMap[label].first, FALSE, EmptyString),
                  aI, aI + 1, 0)
    ELSE Iteration(UnknownOption(label), aI, nP, opts, <<>>)

\* the branch `if (pOption)`, pOption being what findOption returned
ProcessOption(label, pOption, aI, nP, opts) ==
    IF pOption # NullOption
    THEN IF needsValue(pOption)
         THEN IF aI + 1 < argc
              THEN \* ++argI; (*pOption)(options, argv[argI])
                   AfterInvocation(
                       OptionApplyValue(pOption, opts, argv[aI + 1]),
                       Invocation(aI, "option", optionMap[label].first, TRUE, argv[aI + 1]),
                       aI + 1, aI + 2, nP)
              ELSE Iteration(ValueNeeded(label), aI, nP, opts, <<>>)
         ELSE \* (*pOption)(options)
              AfterInvocation(
                  OptionApply(pOption, opts),
                  Invocation(aI, "option", optionMap[label].first, FALSE, EmptyString),
                  aI, aI + 1, nP)
    ELSE Iteration(UnknownOption(label), aI, nP, opts, <<>>)

\* mutant: nextPos is not advanced
ProcessArgumentNoAdvance(aI, nP, opts) ==
    AfterInvocation(
        ArgumentApplyValue(arguments[nP + 1], opts, argv[aI]),
        Invocation(aI, "argument", nP, TRUE, argv[aI]),
        aI, aI + 1, nP)

\* Argument& posArg = *this->arguments[nextPos++]; posArg(options, argv[argI])
ProcessArgument(aI, nP, opts) ==
    AfterInvocation(
        ArgumentApplyValue(arguments[nP + 1], opts, argv[aI]),
        Invocation(aI, "argument", nP, TRUE, argv[aI]),
        aI, aI + 1, nP + 1)

\* mutant: a surplus positional token is skipped instead of rejected
ParseIterationSkipsSurplus(aI, nP, opts) ==
    IF isLabel(argv[aI])
    THEN ProcessOption(argv[aI], findOption(argv[aI]), aI, nP, opts)
    ELSE IF nP = Len(arguments)
         THEN Iteration(NoException, aI + 1, nP, opts, <<>>)
         ELSE ProcessArgument(aI, nP, opts)

ParseIteration(aI, nP, opts) ==
    IF isLabel(argv[aI])
    THEN \* processes an option
         ProcessOption(argv[aI], findOption(argv[aI]), aI, nP, opts)
    ELSE \* processes the next positional argument
         IF nP = Len(arguments)
         THEN Iteration(TooManyArguments, aI, nP, opts, <<>>)
         ELSE ProcessArgument(aI, nP, opts)

\* what one iteration makes of the state of the call
AfterIteration(r) ==
    /\ argI' = r.argI
    /\ nextPos' = r.nextPos
    /\ options' = r.options
    /\ invoked' = invoked \o r.calls
    /\ thrown' = r.thrown
    /\ pc' = IF r.thrown # NoException THEN "failed" ELSE "scan"

\* What the entry of parse makes of the parser and the call, for the
\* arguments n (argc) and av (argv): the argc check, then the program name.
Entry(status, ex, name, wasCalled, aI) ==
    [pc |-> status, thrown |-> ex, programName |-> name, called |-> wasCalled, argI |-> aI]

\* mutant: the program name is assigned before argc is checked
parseEntryNameBeforeCheck(n, av) ==
    IF n <= 0 THEN Entry("failed", TooFewArguments, av[0], called, 0)
    ELSE Entry("scan", NoException, av[0], TRUE, 1)

\* mutant: the program name is assigned only while it is still empty
parseEntryKeepsFirstName(n, av) ==
    IF n <= 0 THEN Entry("failed", TooFewArguments, programName, called, 0)
    ELSE Entry("scan", NoException,
               IF programName = EmptyString THEN av[0] ELSE programName, TRUE, 1)

parseEntry(n, av) ==
    IF n <= 0 THEN Entry("failed", TooFewArguments, programName, called, 0)
    ELSE Entry("scan", NoException, av[0], TRUE, 1)

AfterEntry(e) ==
    /\ pc' = e.pc
    /\ thrown' = e.thrown
    /\ programName' = e.programName
    /\ called' = e.called
    /\ argI' = e.argI

\* mutant: the local keeps what its storage held
LeftAsFound(storage) == storage

\* `Opt options;`: the local is default-constructed, whatever its storage
\* held before (the fixtures' constructor sets every field)
DefaultConstructed(storage) == DefaultOptions

\* Entry of parse(argc, argv).  With argc <= 0 the caller still passes an
\* array (one element here), as the tests do.
ParseBody(n, av) ==
    /\ argc' = n
    /\ argv' = av
    /\ options' = DefaultConstructed(options)
    /\ result' = NoRecord
    /\ invoked' = <<>>
    /\ nextPos' = 0
    /\ AfterEntry(parseEntry(n, av))
    /\ UNCHANGED <<registry, labelProbe, second, conv>>

ParseCall(n, av) ==
    /\ Idle
    /\ ParseBody(n, av)
    /\ UNCHANGED earlier

ParseEnter ==
    \E n \in -1 .. MaxArgc :
      \E av \in ArgVectors[IF n <= 0 THEN 1 ELSE n] : ParseCall(n, av)

\* One iteration of `while (argI < argc)`.
ParseStep ==
    /\ pc = "scan"
    /\ argI < argc
    /\ AfterIteration(ParseIteration(argI, nextPos, options))
    /\ optionMap' = IF isLabel(argv[argI]) THEN optionMapAfterFind(argv[argI])
                    ELSE optionMap
    /\ UNCHANGED <<optionList, arguments, programName, argc, argv, result, called,
                   labelProbe, earlier, second, conv>>

\* mutant: the check after the loop is missing
ParseOutcomeUnchecked(nP) == NoException

\* The check after the loop: the exception it throws, if any.
ParseOutcome(nP) ==
    IF nP # Len(arguments) THEN TooFewArguments ELSE NoException

\* Exit of the loop: the check of the positional arguments and the return.
ParseReturn ==
    /\ pc = "scan"
    /\ ~(argI < argc)
    /\ thrown' = ParseOutcome(nextPos)
    /\ IF ParseOutcome(nextPos) # NoException
       THEN pc' = "failed" /\ result' = NoRecord
       ELSE pc' = "done" /\ result' = options
    /\ UNCHANGED <<registry, programName, argc, argv, argI, nextPos, options,
                   invoked, called, labelProbe, earlier, second, conv>>

\* The caller drops the outcome of the finished parse call (the returned Opt
\* or the caught exception); the parser object is as the call left it.
Discard ==
    /\ pc \in {"done", "failed", "applied"}
    /\ pc' = "idle"
    /\ argc' = 0
    /\ argv' = NoArgs
    /\ argI' = 0
    /\ nextPos' = 0
    /\ options' = DefaultOptions
    /\ result' = NoRecord
    /\ invoked' = <<>>
    /\ thrown' = NoException
    /\ UNCHANGED <<registry, programName, called, labelProbe, earlier, second, conv>>

Next ==
    \/ AddMemberOption
    \/ AddConstMemberOption
    \/ AddFunctionOption
    \/ AddConstFunctionOption
    \/ AppendMemberArgument
    \/ AppendFunctionArgument
    \/ ParseEnter
    \/ ParseStep
    \/ ParseReturn
    \/ Discard

Spec == Init /\ [][Next]_vars

(***************************************************************************)
(* The registry under re-registration: two labels that can be registered   *)
(* and one that cannot, definitions that differ in description and value   *)
(* name, and parse calls of one option, with and without a value, to see   *)
(* which definition a label dispatches to.                                 *)
(***************************************************************************)
\* "-v"
LabelV == <<DASH, 118>>
WideLabels == {LabelN, LabelV, LabelDigit}
WideValueNames == {"X", "Y"}
WideDescriptions == {"old option", "new option"}

MemberOptionShapes(label) ==
    {MemberOption(label, name, description, "i", "DefaultFormatter") :
        name \in WideValueNames, description \in WideDescriptions}

ConstMemberOptionShapes(label) ==
    {ConstMemberOption(label, description, "C", constant) :
        description \in WideDescriptions, constant \in Constants}

FunctionOptionShapes(label) ==
    {FunctionOption(label, name, description, "setFn", "DefaultFormatter") :
        name \in WideValueNames, description \in WideDescriptions}

ConstFunctionOptionShapes(label) ==
    {ConstFunctionOption(label, description, f) :
        description \in WideDescriptions, f \in {"setFlag", "triggerHelp"}}

WideShapes(label) ==
    MemberOptionShapes(label) \cup ConstMemberOptionShapes(label)
    \cup FunctionOptionShapes(label) \cup ConstFunctionOptionShapes(label)

\* addOption(label, name, description, field)
AddMemberOptionWide ==
    \E label \in WideLabels : \E pOption \in MemberOptionShapes(label) :
        Register(label, pOption)

\* addOption(label, description, field, constant)
AddConstMemberOptionWide ==
    \E label \in WideLabels : \E pOption \in ConstMemberOptionShapes(label) :
        Register(label, pOption)

\* addOption(label, name, description, f)
AddFunctionOptionWide ==
    \E label \in WideLabels : \E pOption \in FunctionOptionShapes(label) :
        Register(label, pOption)

\* addOption(label, description, f)
AddConstFunctionOptionWide ==
    \E label \in WideLabels : \E pOption \in ConstFunctionOptionShapes(label) :
        Register(label, pOption)

\* A caller applies a registered option itself, through the two call
\* operators every Option has; pc = "applied" while it holds the outcome.
ApplyOutcome(r, call) ==
    /\ Idle
    /\ pc' = "applied"
    /\ options' = r.options
    /\ thrown' = r.thrown
    /\ invoked' = <<call>>
    /\ UNCHANGED <<registry, programName, argc, argv, argI, nextPos, result,
                   called, labelProbe, earlier, second, conv>>

\* (*pOption)(options, value)
ApplyOptionWithValue ==
    \E i \in 0 .. getOptionCount - 1 : \E value \in Tokens :
        ApplyOutcome(OptionApplyValue(getOption(i), DefaultOptions, value),
                     Invocation(0, "option", i, TRUE, value))

\* (*pOption)(options)
ApplyOptionWithoutValue ==
    \E i \in 0 .. getOptionCount - 1 :
        ApplyOutcome(OptionApply(getOption(i), DefaultOptions),
                     Invocation(0, "option", i, FALSE, EmptyString))

\* { "p", label } and { "p", label, "5" }
OneOptionArgVectors ==
    {[k \in 0 .. 1 |-> IF k = 0 THEN <<112>> ELSE label] : label \in WideLabels}
    \cup {[k \in 0 .. 2 |-> IF k = 0 THEN <<112>> ELSE IF k = 1 THEN label ELSE Token5] :
            label \in WideLabels}

ParseEnterOneOption ==
    \E av \in OneOptionArgVectors : ParseCall(Cardinality(DOMAIN av), av)

NextRegistry ==
    \/ AddMemberOptionWide
    \/ AddConstMemberOptionWide
    \/ AddFunctionOptionWide
    \/ AddConstFunctionOptionWide
    \/ ParseEnterOneOption
    \/ ParseStep
    \/ ParseReturn
    \/ ApplyOptionWithValue
    \/ ApplyOptionWithoutValue
    \/ Discard

SpecRegistry == Init /\ [][NextRegistry]_vars

(***************************************************************************)
(* Two parse calls on one parser, on two threads, once the registry is     *)
(* built.  parse takes no lock; the steps of the two calls interleave.     *)
(* The first thread is the call of the variables pc, argc, argv, ...; its  *)
(* entry is taken in two steps here, the check of argc and the assignment  *)
(* of programName.  The second thread calls parse(1, { "q" }): the check,  *)
(* the assignment, no iteration of the loop, the check of the arguments.   *)
(* Two unordered writes of the one std::string programName are a data      *)
(* race: the behaviour is undefined, the string may hold either name or    *)
(* neither, and the writing call may not survive it.                       *)
(***************************************************************************)
\* "q": the program name of the second call
SecondProgName == <<113>>

\* "?": what is left of a string two threads assigned at once
TornName == <<63>>

\* the values the assignment programName = name may leave, and the positions
\* the writer may be in afterwards; raced: the other call is past its check
\* of argc and not yet returned, so its own assignment is not ordered with
\* this one
NameAfterWrite(name, otherName, raced) ==
    IF raced THEN {name, otherName, TornName} ELSE {name}

PositionAfterWrite(position, raced) ==
    IF raced THEN {position, "crashed"} ELSE {position}

\* only a parser no call is running on is configured
BuildRegistry ==
    /\ second.pc = "idle"
    /\ \/ AddMemberOption
       \/ AddConstMemberOption
       \/ AddFunctionOption
       \/ AddConstFunctionOption
       \/ AppendMemberArgument
       \/ AppendFunctionArgument

\* first thread: entry of parse up to the check of argc
FirstEnter ==
    \E av \in OneOptionArgVectors :
        /\ Idle
        /\ argc' = Cardinality(DOMAIN av)
        /\ argv' = av
        /\ options' = DefaultOptions
        /\ result' = NoRecord
        /\ invoked' = <<>>
        /\ nextPos' = 0
        /\ argI' = 0
        /\ thrown' = parseEntry(Cardinality(DOMAIN av), av).thrown
        /\ pc' = IF parseEntry(Cardinality(DOMAIN av), av).pc = "scan"
                 THEN "naming" ELSE "failed"
        /\ UNCHANGED <<registry, programName, called, labelProbe, earlier, second, conv>>

\* first thread: this->programName = argv[0]; int argI = 1
FirstAssignName ==
    /\ pc = "naming"
    /\ programName' \in NameAfterWrite(argv[0], SecondProgName,
                                       second.pc \in {"naming", "check"})
    /\ pc' \in PositionAfterWrite("scan", second.pc \in {"naming", "check"})
    /\ argI' = 1
    /\ called' = TRUE
    /\ UNCHANGED <<registry, argc, argv, nextPos, options, result, thrown, invoked,
                   labelProbe, earlier, second, conv>>

\* second thread: entry of parse(1, { "q" }) up to the check of argc
SecondEnter ==
    /\ second.pc = "idle"
    /\ second' = [thrown |-> NoException, pc |-> "naming",
                  argv |-> [k \in {0} |-> SecondProgName], result |-> NoRecord]
    /\ UNCHANGED <<registry, programName, callState, thrown, called, labelProbe, earlier, conv>>

\* second thread: this->programName = argv[0]
SecondAssignName ==
    /\ second.pc = "naming"
    /\ programName' \in NameAfterWrite(second.argv[0],
                                       IF pc = "idle" THEN second.argv[0] ELSE argv[0],
                                       pc \in {"naming", "scan"})
    /\ \E position \in PositionAfterWrite("check", pc \in {"naming", "scan"}) :
           second' = [second EXCEPT !.pc = position]
    /\ called' = TRUE
    /\ UNCHANGED <<registry, callState, thrown, labelProbe, earlier, conv>>

\* second thread: the loop is not entered; the check of the arguments
SecondReturn ==
    /\ second.pc = "check"
    /\ second' = IF ParseOutcome(0) # NoException
                 THEN [second EXCEPT !.pc = "failed", !.thrown = ParseOutcome(0)]
                 ELSE [second EXCEPT !.pc = "done", !.result = DefaultOptions]
    /\ UNCHANGED <<registry, programName, callState, thrown, called, labelProbe, earlier, conv>>

\* second thread: the caller drops the outcome
SecondDiscard ==
    /\ second.pc \in {"done", "failed"}
    /\ second' = SecondIdle
    /\ UNCHANGED <<registry, programName, callState, thrown, called, labelProbe, earlier, conv>>

NextConcurrent ==
    \/ BuildRegistry
    \/ FirstEnter
    \/ FirstAssignName
    \/ ParseStep
    \/ ParseReturn
    \/ Discard
    \/ SecondEnter
    \/ SecondAssignName
    \/ SecondReturn
    \/ SecondDiscard

SpecConcurrent == Init /\ [][NextConcurrent]_vars

(***************************************************************************)
(* A DefaultFormatter on its own: the caller constructs the formatter of a *)
(* numeric type T for char or wchar_t and hands it a string; the result is *)
(* kept beside what isLabel says of the same string.  The strings are the  *)
(* decimal numerals around the limits of every width and a few others.     *)
(***************************************************************************)
\* the decimal numeral of n
RECURSIVE DecimalDigits(_)
DecimalDigits(n) ==
    IF n < 10 THEN <<DIGIT0 + n>> ELSE Append(DecimalDigits(n \div 10), DIGIT0 + (n % 10))

Decimal(n) == IF n < 0 THEN <<DASH>> \o DecimalDigits(0 - n) ELSE DecimalDigits(n)

NumericTypes == IntegerTypes \cup {"double", "float"}

CharTypes == {"char", "wchar_t"}

\* "", "-", "-0", "+5", " 5", " -5", "5x", "-5x", "1.5", "-.5", ".5", "-5.",
\* "-inf", "inf", "-INF", "-infinity", "-nan", "nan", "-n", "--5", "1e2",
\* "-1e2", "1e39", "-1e39", "1e309", "-1e309", "1e", "-e1", "0"
OtherStrings ==
    {<<>>, <<DASH>>, <<DASH, DIGIT0>>, <<PLUS, 53>>, <<SPACE, 53>>, <<SPACE, DASH, 53>>,
     <<53, 120>>, <<DASH, 53, 120>>, <<49, DOT, 53>>, <<DASH, DOT, 53>>, <<DOT, 53>>,
     <<DASH, 53, DOT>>,
     <<DASH, 105, 110, 102>>, <<105, 110, 102>>, <<DASH, 73, 78, 70>>,
     <<DASH, 105, 110, 102, 105, 110, 105, 116, 121>>,
     <<DASH, 110, 97, 110>>, <<110, 97, 110>>, <<DASH, 110>>, <<DASH, DASH, 53>>,
     <<49, 101, 50>>, <<DASH, 49, 101, 50>>,
     <<49, 101, 51, 57>>, <<DASH, 49, 101, 51, 57>>,
     <<49, 101, 51, 48, 57>>, <<DASH, 49, 101, 51, 48, 57>>,
     <<49, 101>>, <<DASH, 101, 49>>, <<DIGIT0>>}

FormatStrings ==
    {Decimal(n) : n \in (0 - Pow2(LongBits) - 2) .. (Pow2(LongBits) + 2)} \cup OtherStrings

InitFormat ==
    /\ Init!1 /\ Init!2 /\ Init!3 /\ Init!4 /\ Init!5 /\ Init!6 /\ Init!7 /\ Init!8
    /\ Init!9 /\ Init!10 /\ Init!11 /\ Init!12 /\ Init!13 /\ Init!14 /\ Init!15
    /\ Init!16 /\ Init!17 /\ Init!19
    /\ conv \in [valueStr : FormatStrings, T : NumericTypes, longIsWide : BOOLEAN,
                  Ch : CharTypes, out : {<<>>}]

\* format(valueStr), and isLabel(valueStr) as parse would ask
FormatCall ==
    /\ conv.out = <<>>
    /\ conv' = [conv EXCEPT !.out =
                   <<[isLabel |-> isLabel(conv.valueStr),
                      r |-> DefaultFormatter(conv.T, conv.Ch, conv.longIsWide, conv.valueStr)]>>]
    /\ UNCHANGED <<registry, programName, callState, thrown, called, labelProbe, earlier, second>>

NextFormat == FormatCall

SpecFormat == InitFormat /\ [][NextFormat]_vars

(***************************************************************************)
(* parse called again and again on one parser: the caller registers "-n"   *)
(* in one of its shapes and up to two positional arguments, as a fixture   *)
(* does, and then calls parse with one token vector after another, with no *)
(* other operation in between.  After a call it calls parse with the same  *)
(* tokens, with no tokens, or with the same tokens interleaved otherwise.  *)
(***************************************************************************)
\* "-": label-shaped, never registered
TokenDash == <<DASH>>

ScanTokens == {LabelN, TokenDash, Token5, TokenNeg5}

\* "p"
ScanProgName == <<112>>

MaxTokens == MaxArgc

\* the array argv of a sequence of strings
AsArgv(strs) == [k \in 0 .. Len(strs) - 1 |-> strs[k + 1]]

TokenVectors ==
    {AsArgv(<<ScanProgName>> \o toks) :
        toks \in UNION {[1 .. n -> ScanTokens] : n \in 0 .. MaxTokens}}

\* The tokens of av from index k on, in the groups the loop of parse takes
\* them in: a label with the value it consumes, a label alone, or a
\* positional value.  `whole` says that the label is that of a registered
\* option and has its value, if it takes one.
RECURSIVE Groups(_, _)
Groups(av, k) ==
    IF k >= Cardinality(DOMAIN av) THEN <<>>
    ELSE IF ~isLabel(av[k])
    THEN <<[toks |-> <<av[k]>>, option |-> FALSE, whole |-> TRUE]>> \o Groups(av, k + 1)
    ELSE IF findOption(av[k]) = NullOption
    THEN <<[toks |-> <<av[k]>>, option |-> TRUE, whole |-> FALSE]>> \o Groups(av, k + 1)
    ELSE IF ~needsValue(findOption(av[k]))
    THEN <<[toks |-> <<av[k]>>, option |-> TRUE, whole |-> TRUE]>> \o Groups(av, k + 1)
    ELSE IF k + 1 < Cardinality(DOMAIN av)
    THEN <<[toks |-> <<av[k], av[k + 1]>>, option |-> TRUE, whole |-> TRUE]>>
             \o Groups(av, k + 2)
    ELSE <<[toks |-> <<av[k]>>, option |-> TRUE, whole |-> FALSE]>>

\* the sequences that hold the elements of both, each in its own order
RECURSIVE Interleavings(_, _)
Interleavings(os, ps) ==
    IF os = <<>> THEN {ps}
    ELSE IF ps = <<>> THEN {os}
    ELSE {<<Head(os)>> \o m : m \in Interleavings(Tail(os), ps)}
         \cup {<<Head(ps)>> \o m : m \in Interleavings(os, Tail(ps))}

RECURSIVE Flatten(_)
Flatten(groups) ==
    IF groups = <<>> THEN <<>> ELSE Head(groups).toks \o Flatten(Tail(groups))

\* The token vectors made from av by moving options, each with its value,
\* among the positional values; none unless every label of av is a whole
\* option.
InterleavedOf(av, groups) ==
    IF \E g \in 1 .. Len(groups) : ~groups[g].whole THEN {}
    ELSE {AsArgv(<<av[0]>> \o Flatten(m)) :
            m \in Interleavings(SelectSeq(groups, LAMBDA g : g.option),
                                SelectSeq(groups, LAMBDA g : ~g.option))} \ {av}

Interleaved(av) == InterleavedOf(av, Groups(av, 1))

\* addOption("-n", ...) in one of three shapes, on the empty parser
RegisterScanOption ==
    /\ optionList = <<>>
    /\ \E pOption \in {MemberOption(LabelN, "N", "desc", "i", "DefaultFormatter"),
                        MemberOption(LabelN, "N", "desc", "i", "custom"),
                        ConstMemberOption(LabelN, "desc", "C", 1)} :
           Register(LabelN, pOption)

\* appendArgument("x", "desc", &Options::a)
AppendFirstArgument ==
    /\ Len(optionList) = 1
    /\ Len(arguments) = 0
    /\ appendArgument(MemberArgument(<<120>>, "desc", "a", "DefaultFormatter"))

\* appendArgument("x", "desc", &Options::setFa)
AppendSecondArgument ==
    /\ Len(optionList) = 1
    /\ Len(arguments) = 1
    /\ appendArgument(FunctionArgument(<<120>>, "desc", "setFa", "DefaultFormatter"))

\* the first parse call
ParseEnterTokens ==
    /\ Len(optionList) = 1
    /\ \E av \in TokenVectors : ParseCall(Cardinality(DOMAIN av), av)

\* the next parse call, made when the call before has returned or thrown
ParseAgain ==
    /\ pc \in {"done", "failed"}
    /\ \E av \in {argv, AsArgv(<<ScanProgName>>)} \cup Interleaved(argv) :
          ParseBody(Cardinality(DOMAIN av), av)
    /\ earlier' = [thrown |-> thrown, argv |-> argv, result |-> result]

NextTokens ==
    \/ RegisterScanOption
    \/ AppendFirstArgument
    \/ AppendSecondArgument
    \/ ParseEnterTokens
    \/ ParseAgain
    \/ ParseStep
    \/ ParseReturn

SpecTokens == Init /\ [][NextTokens]_vars

(***************************************************************************)
(* isLabel on its own: the caller hands it any string.                     *)
(***************************************************************************)
InitLabel ==
    /\ Init!1 /\ Init!2 /\ Init!3 /\ Init!4 /\ Init!5 /\ Init!6 /\ Init!7 /\ Init!8
    /\ Init!9 /\ Init!10 /\ Init!11 /\ Init!12 /\ Init!13 /\ Init!14
    /\ lblIn \in LabelStrings
    /\ lblOut = <<>>
    /\ Init!17 /\ Init!18 /\ Init!19

IsLabelCall ==
    /\ lblOut = <<>>
    /\ lblOut' = <<isLabel(lblIn)>>
    /\ UNCHANGED <<registry, programName, callState, thrown, called, lblIn, earlier, second, conv>>

NextLabel == IsLabelCall

SpecLabel == InitLabel /\ [][NextLabel]_vars

(***************************************************************************)
(* Vocabulary of the properties, stated without the operators of the       *)
(* model above: the label syntax rule as the specification words it, the   *)
(* labels on record in the option list, and what the history of            *)
(* invocations says about the tokens.                                      *)
(***************************************************************************)
DigitOrDot == {DOT} \cup (DIGIT0 .. DIGIT9)

LabelShaped(s) ==
    /\ Len(s) > 0
    /\ s[1] = DASH
    /\ (Len(s) = 1 \/ s[2] \notin DigitOrDot)

RegisteredLabels == {optionList[k].label : k \in 1 .. Len(optionList)}

\* the definition on record for a registered label
Registered(label) ==
    optionList[CHOOSE k \in 1 .. Len(optionList) : optionList[k].label = label]

TakesValue(pOption) == pOption.kind \in {"MemberOption", "FunctionOption"}

\* the invocations of positional argument definitions, in order
ArgumentCalls == SelectSeq(invoked, LAMBDA e : e.def = "argument")

\* indexes of the tokens consumed as the value of an option
ValueTokens == {invoked[k].tok + 1 : k \in {j \in 1 .. Len(invoked) :
                                              invoked[j].def = "option" /\ invoked[j].hasValue}}

\* indexes of the tokens before `upto` that are positional values
PositionalTokens(upto) ==
    {t \in 1 .. upto - 1 : ~LabelShaped(argv[t]) /\ t \notin ValueTokens}

\* the k-th smallest element of a set of indexes
Kth(S, k) == CHOOSE t \in S : Cardinality({u \in S : u < t}) = k - 1

\* token t was handed to a definition, as a label, a positional value or
\* the value of an option
Handled(t) ==
    \E k \in 1 .. Len(invoked) :
        \/ invoked[k].tok = t
        \/ invoked[k].def = "option" /\ invoked[k].hasValue /\ invoked[k].tok + 1 = t

\* the token at which a failed call stopped: the label or positional token
\* of the iteration that threw
FailedAt ==
    IF thrown.kind \in {"BadValue", "HelpNeeded"}
    THEN invoked[Len(invoked)].tok
    ELSE argI

(***************************************************************************)
(* C1: for every string s, isLabel(s) is true if and only if s is          *)
(* non-empty, its first character is '-', and either s has length 1 or its *)
(* second character is neither a digit nor '.'.                            *)
(***************************************************************************)
C1_IsLabelIffLabelShaped ==
    lblOut # <<>> => (lblOut[1] <=> LabelShaped(lblIn))

\* "-9" was classified, and is no label
C1_Witness == lblIn = <<DASH, DIGIT9>> /\ lblOut = <<FALSE>>

(***************************************************************************)
(* C2: parse is fail-fast and left-to-right.  A failed call stopped at one *)
(* token: every token to its left was handed to a definition, no           *)
(* definition was invoked for a token to its right, and too few arguments  *)
(* is thrown only after every token was handled.  Where the registry makes *)
(* the classification of a token independent of its neighbours (no         *)
(* positional definition, no option that takes a value), the call fails at *)
(* the leftmost offending token with the error of that token: an unknown   *)
(* option before a surplus positional token gives unknown option, the      *)
(* reverse order gives too many arguments.                                 *)
(***************************************************************************)
ContextFree ==
    /\ Len(arguments) = 0
    /\ \A k \in 1 .. Len(optionList) : ~TakesValue(optionList[k])

Offending(t) ==
    \/ ~LabelShaped(argv[t])
    \/ argv[t] \notin RegisteredLabels
    \/ Registered(argv[t]).f = "triggerHelp"

ErrorOf(t) ==
    IF ~LabelShaped(argv[t]) THEN TooManyArguments
    ELSE IF argv[t] \notin RegisteredLabels THEN UnknownOption(argv[t])
    ELSE HelpNeeded

LeftmostOffending == CHOOSE t \in 1 .. argc - 1 :
                        Offending(t) /\ \A u \in 1 .. t - 1 : ~Offending(u)

C2_FailFastLeftToRight ==
    /\ (pc = "failed" /\ argc >= 1) =>
          IF thrown = TooFewArguments
          THEN /\ argI = argc
               /\ \A t \in 1 .. argc - 1 : Handled(t)
          ELSE /\ FailedAt < argc
               /\ \A t \in 1 .. FailedAt - 1 : Handled(t)
               /\ \A k \in 1 .. Len(invoked) : invoked[k].tok <= FailedAt
               /\ \A t \in FailedAt + 2 .. argc - 1 : ~Handled(t)
    /\ (pc \in {"done", "failed"} /\ argc >= 1 /\ ContextFree) =>
          IF \E t \in 1 .. argc - 1 : Offending(t)
          THEN /\ pc = "failed"
               /\ thrown = ErrorOf(LeftmostOffending)
               /\ FailedAt = LeftmostOffending
          ELSE pc = "done"

\* an unknown option in front of a surplus positional token
C2_Witness ==
    /\ pc = "failed"
    /\ thrown.kind = "UnknownOption"
    /\ argc >= 3
    /\ argI = 1
    /\ ~LabelShaped(argv[2])
    /\ Len(arguments) = 0

(***************************************************************************)
(* C3: the k-th token dispatched as a positional value (not label-shaped,  *)
(* not consumed as the value of an option) is applied to the k-th          *)
(* positional definition in append order; a successful parse has applied   *)
(* every positional definition exactly once, and the returned record holds *)
(* what each definition made of its token.                                 *)
(***************************************************************************)
\* the slot a positional definition writes
SlotOf(posArg) == IF posArg.kind = "MemberArgument" THEN posArg.field ELSE "fa"

C3_PositionalOrder ==
    (pc # "idle" /\ argc >= 1) =>
        /\ Len(ArgumentCalls) <= Len(arguments)
        /\ \A k \in 1 .. Len(ArgumentCalls) :
              /\ ArgumentCalls[k].index = k - 1
              /\ ArgumentCalls[k].tok = Kth(PositionalTokens(argc), k)
              /\ ArgumentCalls[k].value = argv[ArgumentCalls[k].tok]
        /\ pc = "scan" => Cardinality(PositionalTokens(argI)) = Len(ArgumentCalls)
        /\ pc = "done" =>
              /\ Len(ArgumentCalls) = Len(arguments)
              /\ Cardinality(PositionalTokens(argc)) = Len(arguments)
              /\ \A k \in 1 .. Len(arguments) :
                    (\A j \in k + 1 .. Len(arguments) :
                        SlotOf(arguments[j]) # SlotOf(arguments[k]))
                    => result[SlotOf(arguments[k])] =
                          Format(arguments[k].format, ArgumentCalls[k].value).value

\* two positional values around an option, applied to two definitions
C3_Witness ==
    /\ pc = "done"
    /\ Len(arguments) = 2
    /\ arguments[1].kind # arguments[2].kind
    /\ Len(invoked) = 3
    /\ invoked[2].def = "option"

(***************************************************************************)
(* C4: a label-shaped token reached as an option reference is looked up by *)
(* exact string match.  When its exact text is no registered label the     *)
(* call fails with unknown option carrying the token as written and        *)
(* nothing is invoked for it; when it is a registered label the call does  *)
(* not fail with unknown option.  A token that only begins with a          *)
(* registered label is unknown.                                            *)
(***************************************************************************)
C4_UnknownOptionExactMatch ==
    [][(pc = "scan" /\ argI < argc /\ LabelShaped(argv[argI])) =>
          IF argv[argI] \in RegisteredLabels
          THEN thrown'.kind # "UnknownOption"
          ELSE /\ pc' = "failed"
               /\ thrown' = UnknownOption(argv[argI])
               /\ invoked' = invoked
               /\ options' = options]_vars

\* "-nv" is unknown although "-n" is registered
C4_Witness ==
    /\ pc = "failed"
    /\ thrown = UnknownOption(TokenNV)
    /\ LabelN \in RegisteredLabels
    /\ argv[argI] = TokenNV

(***************************************************************************)
(* C5: when the last token of the command line is the label of an option   *)
(* that takes a value, the call fails with value needed carrying that      *)
(* label, and the action of the option is not invoked.                     *)
(***************************************************************************)
C5_ValueNeededAtEnd ==
    [][(/\ pc = "scan"
        /\ argI = argc - 1
        /\ argv[argI] \in RegisteredLabels
        /\ TakesValue(Registered(argv[argI]))) =>
          /\ pc' = "failed"
          /\ thrown' = ValueNeeded(argv[argI])
          /\ invoked' = invoked
          /\ options' = options]_vars

\* the value option comes last, after other tokens were handled
C5_Witness ==
    /\ pc = "failed"
    /\ thrown.kind = "ValueNeeded"
    /\ thrown.label = argv[argc - 1]
    /\ argI = argc - 1
    /\ argc >= 3
    /\ Len(invoked) >= 1

(***************************************************************************)
(* C6: a positional token met when every positional definition has already *)
(* been applied makes the call fail with too many arguments at that token; *)
(* the surplus token is applied to nothing.                                *)
(***************************************************************************)
C6_TooManyArguments ==
    [][(/\ pc = "scan"
        /\ argI < argc
        /\ ~LabelShaped(argv[argI])
        /\ Len(ArgumentCalls) = Len(arguments)) =>
          /\ pc' = "failed"
          /\ thrown' = TooManyArguments
          /\ invoked' = invoked
          /\ options' = options
          /\ argI' = argI]_vars

\* one definition, already applied, and a second positional token
C6_Witness ==
    /\ pc = "failed"
    /\ thrown = TooManyArguments
    /\ Len(arguments) = 1
    /\ Len(ArgumentCalls) = 1
    /\ ~LabelShaped(argv[argI])

(***************************************************************************)
(* C7: when all tokens are consumed and fewer positional tokens were       *)
(* supplied than definitions registered, the call fails with too few       *)
(* arguments and returns no record; a record is returned only when the     *)
(* number of positional tokens equals the number of definitions.           *)
(***************************************************************************)
C7_TooFewArguments ==
    [][/\ (pc = "scan" /\ argI >= argc /\ Len(ArgumentCalls) < Len(arguments)) =>
             /\ pc' = "failed"
             /\ thrown' = TooFewArguments
             /\ result' = NoRecord
       /\ (pc # "done" /\ pc' = "done") =>
             /\ Cardinality(PositionalTokens(argc)) = Len(arguments)
             /\ Len(ArgumentCalls) = Len(arguments)
             /\ result' # NoRecord
       /\ pc' = "failed" => result' = NoRecord]_vars

\* an option was handled, then the tokens ran out one positional short
C7_Witness ==
    /\ pc = "failed"
    /\ thrown = TooFewArguments
    /\ argc >= 3
    /\ Len(arguments) = 2
    /\ Len(ArgumentCalls) = 1
    /\ Len(invoked) = 2

(***************************************************************************)
(* C8: when the converter of the definition being applied rejects the      *)
(* value token, the call fails with bad value carrying the label of the    *)
(* option (the name of the positional argument), the raw token, and the    *)
(* reason the converter gave; the record is not written.                   *)
(***************************************************************************)
\* r is what the converter makes of the token
RejectionSurfaces(r, who, token) ==
    ~r.ok =>
        /\ pc' = "failed"
        /\ thrown' = BadValue3(r.ex.message, who, token)
        /\ options' = options

C8_BadValueCarriesLabelAndToken ==
    [][(pc = "scan" /\ argI < argc) =>
          /\ (/\ argv[argI] \in RegisteredLabels
              /\ TakesValue(Registered(argv[argI]))
              /\ argI + 1 < argc) =>
                 RejectionSurfaces(
                     Format(Registered(argv[argI]).format, argv[argI + 1]),
                     argv[argI], argv[argI + 1])
          /\ (~LabelShaped(argv[argI]) /\ Len(ArgumentCalls) < Len(arguments)) =>
                 RejectionSurfaces(
                     Format(arguments[Len(ArgumentCalls) + 1].format, argv[argI]),
                     arguments[Len(ArgumentCalls) + 1].name, argv[argI])]_vars

\* the default converter rejected the value of option "-n"
C8_Witness ==
    /\ pc = "failed"
    /\ thrown = BadValue3("invalid number", LabelN, TokenAB)
    /\ argv[argI] = TokenAB
    /\ argv[argI - 1] = LabelN

(***************************************************************************)
(* C9: a parse call with a token count <= 0 fails with too few arguments,  *)
(* handles no token, returns no record and leaves programName as it was    *)
(* before the call.                                                        *)
(***************************************************************************)
C9_NoTokensTooFewArguments ==
    [][(pc = "idle" /\ pc' # "idle" /\ argc' <= 0) =>
          /\ pc' = "failed"
          /\ thrown' = TooFewArguments
          /\ programName' = programName
          /\ invoked' = <<>>
          /\ result' = NoRecord]_vars

\* the call came after one that had set the program name to another token
C9_Witness ==
    /\ pc = "failed"
    /\ argc <= 0
    /\ thrown = TooFewArguments
    /\ programName # EmptyString
    /\ programName # argv[0]

(***************************************************************************)
(* C10: programName is empty until a parse call with a token count >= 1    *)
(* was made; from the entry of such a call on, whatever its outcome, it    *)
(* equals the first token of that call; nothing else changes it, so it is  *)
(* always the first token of the most recent call that had a token.        *)
(***************************************************************************)
C10_ProgramNameIsFirstToken ==
    [][/\ (pc' # "idle" /\ argc' >= 1) => programName' = argv'[0]
       /\ ~called' => programName' = EmptyString
       /\ programName' # programName =>
             (pc = "idle" /\ pc' = "scan" /\ argc' >= 1)]_vars

\* a call that failed on its second token left its first token as the name
C10_Witness ==
    /\ pc = "failed"
    /\ thrown.kind = "UnknownOption"
    /\ argc >= 2
    /\ programName = argv[0]
    /\ programName = <<113>>

(***************************************************************************)
(* C11: registering an option of any shape under a label that is not       *)
(* label-shaped raises a config error and leaves the registry as it was:   *)
(* the option count, every option by index and the label lookup.  No       *)
(* label that is not label-shaped is ever on record.                       *)
(***************************************************************************)
C11_InvalidLabelConfigError ==
    [][/\ \A label \in RegLabels : \A pOption \in OptionShapes(label) :
             (~LabelShaped(label) /\ Register(label, pOption)) =>
                 /\ thrown'.kind = "ConfigException"
                 /\ getOptionCount' = getOptionCount
                 /\ \A i \in 0 .. getOptionCount - 1 : getOption(i)' = getOption(i)
                 /\ optionMap' = optionMap
       /\ \A l \in DOMAIN optionMap' : LabelShaped(l)
       /\ \A k \in 1 .. Len(optionList') : LabelShaped(optionList'[k].label)]_vars

\* a refused registration on a parser that holds an option
C11_Witness ==
    /\ pc = "idle"
    /\ thrown.kind = "ConfigException"
    /\ getOptionCount = 1
    /\ LabelN \in DOMAIN optionMap

(***************************************************************************)
(* C12: registering an option under a label that is already registered     *)
(* does not fail and replaces the earlier definition: the option count is  *)
(* unchanged, exactly one definition exists for the label, the             *)
(* introspection of the option (description, value name, needsValue) is    *)
(* that of the later registration, and so is the definition the label      *)
(* looks up.  During parse a registered label is dispatched to the one     *)
(* definition on record for it.                                            *)
(***************************************************************************)
\* r is what applying a definition gives
OutcomeIs(r) == options' = r.options /\ thrown' = r.thrown

DispatchedTo(pOption) ==
    IF TakesValue(pOption)
    THEN argI + 1 < argc => OutcomeIs(OptionApplyValue(pOption, options, argv[argI + 1]))
    ELSE OutcomeIs(OptionApply(pOption, options))

Replaced(label, pOption, i) ==
    /\ thrown' = NoException
    /\ getOptionCount' = getOptionCount
    /\ Cardinality({k \in 1 .. Len(optionList') : optionList'[k].label = label}) = 1
    /\ getOption(i)'.label = label
    /\ getOption(i)'.description = pOption.description
    /\ getValueName(getOption(i))' = (IF TakesValue(pOption) THEN pOption.valueName ELSE "")
    /\ needsValue(getOption(i))' = TakesValue(pOption)
    /\ findOption(label)' = pOption

C12_ReRegistrationReplaces ==
    [][/\ \A label \in WideLabels : \A pOption \in WideShapes(label) :
             (label \in RegisteredLabels /\ Register(label, pOption)) =>
                 Replaced(label, pOption,
                          (CHOOSE k \in 1 .. Len(optionList) : optionList[k].label = label) - 1)
       /\ (pc = "scan" /\ argI < argc /\ argv[argI] \in RegisteredLabels) =>
             DispatchedTo(Registered(argv[argI]))]_vars

\* a parse call dispatched "-n" to the constant option on record for it,
\* the second option of the parser
C12_Witness ==
    /\ pc = "done"
    /\ argv[1] = LabelN
    /\ getOptionCount = 2
    /\ getOption(1).label = LabelN
    /\ getOption(1).kind = "ConstMemberOption"
    /\ getOption(1).description = "new option"
    /\ result.C = 1

(***************************************************************************)
(* C13: getOption(i) enumerates the options in the order in which their    *)
(* labels were first registered.  Whatever a step does, a registered label *)
(* keeps its index, the option at every index keeps its label, and a label *)
(* registered for the first time gets the index that was the option count; *)
(* a re-registered label is not moved to the end.                          *)
(***************************************************************************)
C13_IndexIsFirstRegistrationOrder ==
    [][/\ getOptionCount' >= getOptionCount
       /\ \A i \in 0 .. getOptionCount - 1 : getOption(i)'.label = getOption(i).label
       /\ \A l \in DOMAIN optionMap :
             /\ l \in DOMAIN optionMap'
             /\ optionMap'[l].first = optionMap[l].first
       /\ \A l \in DOMAIN optionMap' :
             /\ optionList'[optionMap'[l].first + 1].label = l
             /\ l \notin DOMAIN optionMap =>
                   /\ optionMap'[l].first = getOptionCount
                   /\ getOptionCount' = getOptionCount + 1
       /\ \A label \in WideLabels : \A pOption \in WideShapes(label) :
             (label \in RegisteredLabels /\ Register(label, pOption)) =>
                 getOption(optionMap[label].first)' = pOption]_vars

\* "-v" first, "-n" second, and the option of "-v" is the later of the two
\* definitions
C13_Witness ==
    /\ pc = "idle"
    /\ getOptionCount = 2
    /\ getOption(0).label = LabelV
    /\ getOption(1).label = LabelN
    /\ getOption(0).description = "new option"
    /\ getOption(1).description = "old option"
    /\ thrown.kind = "ConfigException"

(***************************************************************************)
(* C14: for every registered option, if needsValue() is false then         *)
(* getValueName() is the empty string and applying the option with a value *)
(* raises bad value; if needsValue() is true then applying the option      *)
(* without a value raises value needed carrying the label of the option.   *)
(* Neither refused application writes the options container.               *)
(***************************************************************************)
C14_NeedsValueContract ==
    /\ \A i \in 0 .. getOptionCount - 1 :
          ~needsValue(getOption(i)) => getValueName(getOption(i)) = ""
    /\ pc = "applied" =>
          /\ (~needsValue(getOption(invoked[1].index)) /\ invoked[1].hasValue) =>
                (thrown.kind = "BadValue" /\ options = DefaultOptions)
          /\ (needsValue(getOption(invoked[1].index)) /\ ~invoked[1].hasValue) =>
                (thrown = ValueNeeded(getOption(invoked[1].index).label)
                 /\ options = DefaultOptions)

\* an option that takes a value was applied without one
C14_Witness ==
    /\ pc = "applied"
    /\ getOption(invoked[1].index).kind = "FunctionOption"
    /\ ~invoked[1].hasValue
    /\ thrown.kind = "ValueNeeded"

(***************************************************************************)
(* C15: applying a matched no-value option during parse cannot fail:       *)
(* whenever a label token matches a definition whose needsValue() is       *)
(* false, parse invokes its no-value action and goes on to the next token, *)
(* and never ends in an error at such a token.                             *)
(* This does not hold: a no-value callback may throw, as triggerHelp of    *)
(* the example does, and parse ends at that token with its exception.      *)
(***************************************************************************)
AtNoValueOption ==
    /\ pc = "scan"
    /\ argI < argc
    /\ argv[argI] \in RegisteredLabels
    /\ ~needsValue(Registered(argv[argI]))

NoValueActionInvoked ==
    invoked' = Append(invoked,
                      Invocation(argI, "option",
                                 (CHOOSE k \in 1 .. Len(optionList) :
                                     optionList[k].label = argv[argI]) - 1,
                                 FALSE, EmptyString))

C15_NoValueOptionCannotFail ==
    [][AtNoValueOption =>
          /\ NoValueActionInvoked
          /\ pc' = "scan"
          /\ thrown' = NoException
          /\ argI' = argI + 1]_vars

(***************************************************************************)
(* C15, as the code has it: at a label token that matches a no-value       *)
(* definition parse invokes the no-value action of that definition.  A     *)
(* constant-assigning option and a callback that returns cannot fail:      *)
(* parse goes on to the next token.  A callback that throws ends parse at  *)
(* that token with the exception of the callback, unchanged.               *)
(***************************************************************************)
\* the exception the callback f throws, NoException if it returns
ThrownBy(f) == IF f = "triggerHelp" THEN HelpNeeded ELSE NoException

C15_NoValueOptionFailsOnlyByCallback ==
    [][AtNoValueOption =>
          /\ NoValueActionInvoked
          /\ thrown' = ThrownBy(Registered(argv[argI]).f)
          /\ IF ThrownBy(Registered(argv[argI]).f) = NoException
             THEN pc' = "scan" /\ argI' = argI + 1
             ELSE pc' = "failed" /\ argI' = argI /\ options' = options]_vars

\* parse ended at "-n", a no-value callback option, after handling a token
C15_Witness ==
    /\ pc = "failed"
    /\ thrown = HelpNeeded
    /\ argv[argI] = LabelN
    /\ Registered(LabelN).kind = "ConstFunctionOption"
    /\ Len(invoked) = 2

(***************************************************************************)
(* C16: parse does not mutate the registry.  Over every step of a parse    *)
(* call, from its entry to the moment the caller lets go of its outcome,   *)
(* the option count, each option's label, description, needsValue and      *)
(* value name by index, the label-to-definition lookup, the argument count *)
(* and each argument's name and description by index stay what they were.  *)
(***************************************************************************)
OptionView(i) ==
    [label |-> getOption(i).label, description |-> getOption(i).description,
     valueName |-> getValueName(getOption(i)), needsValue |-> needsValue(getOption(i))]

ArgumentView(i) ==
    [description |-> getArgument(i).description, name |-> getArgument(i).name]

RegistryView ==
    [optionCount |-> getOptionCount,
     optionsByIndex |-> [i \in 0 .. getOptionCount - 1 |-> OptionView(i)],
     lookup |-> [l \in DOMAIN optionMap |-> findOption(l)],
     argumentCount |-> getArgumentCount,
     argumentsByIndex |-> [i \in 0 .. getArgumentCount - 1 |-> ArgumentView(i)]]

C16_ParseLeavesRegistry ==
    [][(pc # "idle" \/ pc' # "idle") => RegistryView' = RegistryView]_vars

\* a call that looked up an unknown label on a parser with an option and
\* two arguments
C16_Witness ==
    /\ pc = "failed"
    /\ thrown = UnknownOption(TokenNV)
    /\ getOptionCount = 1
    /\ getArgumentCount = 2
    /\ Len(invoked) >= 1

(***************************************************************************)
(* C17: concurrent parse calls on one fully built parser are safe: in      *)
(* every interleaving of two parse calls on the same parser with different *)
(* token vectors neither call writes state the other reads or writes, and  *)
(* each call returns the result, or the error, it would return if run      *)
(* alone.                                                                  *)
(* This does not hold of the code: both calls assign the member            *)
(* programName.                                                            *)
(***************************************************************************)
\* what the first call returns or throws when nothing runs beside it
RECURSIVE RunAlone(_, _, _), RunAloneAfter(_)
RunAlone(aI, nP, opts) ==
    IF aI < argc THEN RunAloneAfter(ParseIteration(aI, nP, opts))
    ELSE IF nP # Len(arguments) THEN [thrown |-> TooFewArguments, result |-> NoRecord]
    ELSE [thrown |-> NoException, result |-> opts]

RunAloneAfter(r) ==
    IF r.thrown # NoException THEN [thrown |-> r.thrown, result |-> NoRecord]
    ELSE RunAlone(r.argI, r.nextPos, r.options)

\* what parse(1, { "q" }) returns or throws
SecondAlone ==
    IF Len(arguments) # 0 THEN [thrown |-> TooFewArguments, result |-> NoRecord]
    ELSE [thrown |-> NoException, result |-> DefaultOptions]

C17_ConcurrentParseSafe ==
    /\ ~(pc = "naming" /\ second.pc = "naming")
    /\ pc # "crashed"
    /\ second.pc # "crashed"
    /\ pc \in {"done", "failed"} =>
          [thrown |-> thrown, result |-> result] = RunAlone(1, 0, DefaultOptions)
    /\ second.pc \in {"done", "failed"} =>
          [thrown |-> second.thrown, result |-> second.result] = SecondAlone


(***************************************************************************)
(* The default numeric converters (SpecFormat)                             *)
(***************************************************************************)
\* the conversion that has been made, and what isLabel says of its string
Converted == conv.out # <<>>

ConversionResult == conv.out[1].r

RejectedAs(message) ==
    /\ ~ConversionResult.ok
    /\ ConversionResult.ex.kind = "BadValue"
    /\ ConversionResult.ex.message = message

\* C18: every token beginning with '-' that a default numeric converter
\* (integer or floating-point) accepts as a value is classified as non-label
\* by isLabel.
C18_AcceptedNegativeIsNoLabel ==
    (/\ Converted
     /\ Len(conv.valueStr) > 0
     /\ conv.valueStr[1] = DASH
     /\ ConversionResult.ok)
        => ~conv.out[1].isLabel

\* '-' followed by one or more decimal digits
IsDashDigits(str) ==
    /\ Len(str) >= 2
    /\ str[1] = DASH
    /\ \A i \in 2 .. Len(str) : DIGIT0 <= str[i] /\ str[i] <= DIGIT9

\* C19: every unsigned integer converter, for char and for wchar_t, rejects a
\* token that is '-' followed by decimal digits with a bad value whose reason
\* is "out of range", whatever the magnitude of the digits; it never converts
\* it to an unsigned value.
C19_UnsignedRejectsDash ==
    (/\ Converted
     /\ conv.T \in IntegerTypes
     /\ ~IsSignedType(conv.T)
     /\ IsDashDigits(conv.valueStr))
        => RejectedAs("out of range")

\* C20: for each integer type the decimal string of its maximum and of its
\* minimum converts to exactly that value, and the decimal string of
\* maximum + 1 and of minimum - 1 is rejected with a bad value whose reason is
\* "out of range".
C20_LimitsExactBeyondRejected ==
    (Converted /\ conv.T \in IntegerTypes) =>
        /\ conv.valueStr = Decimal(MaxOf(conv.T, conv.longIsWide))
              => ConversionResult.ok /\ ConversionResult.value = MaxOf(conv.T, conv.longIsWide)
        /\ conv.valueStr = Decimal(MinOf(conv.T, conv.longIsWide))
              => ConversionResult.ok /\ ConversionResult.value = MinOf(conv.T, conv.longIsWide)
        /\ conv.valueStr = Decimal(MaxOf(conv.T, conv.longIsWide) + 1)
              => RejectedAs("out of range")
        /\ conv.valueStr = Decimal(MinOf(conv.T, conv.longIsWide) - 1)
              => RejectedAs("out of range")


\* an optional leading '-' followed by one or more decimal digits
IsDecimalNumeral(str) ==
    LET first == IF Len(str) > 0 /\ str[1] = DASH THEN 2 ELSE 1
    IN /\ Len(str) >= first
       /\ \A i \in first .. Len(str) : isdigit(str[i])

\* a numeral with something that is no digit after it
HasTrailingNonNumeric(str) ==
    \E k \in 1 .. Len(str) - 1 :
        /\ IsDecimalNumeral(SubSeq(str, 1, k))
        /\ ~isdigit(str[k + 1])

\* C21: every signed integer converter rejects the empty token and every
\* token with a non-numeric character after the numeral with a bad value
\* whose reason is "invalid integer" and which carries the token; it accepts
\* a token only if it is an optional leading '-' followed by decimal digits.
C21_SignedRejectsNonInteger ==
    (Converted /\ conv.T \in IntegerTypes /\ IsSignedType(conv.T)) =>
        /\ (conv.valueStr = EmptyString \/ HasTrailingNonNumeric(conv.valueStr))
              => RejectedAs("invalid integer") /\ ConversionResult.ex.value = conv.valueStr
        /\ ConversionResult.ok => IsDecimalNumeral(conv.valueStr)

\* C22: for every integer type and every value n of the type, the converter
\* of the type accepts the decimal string of n and returns n.
C22_IntegerRoundTrip ==
    (Converted /\ conv.T \in IntegerTypes) =>
        \A n \in MinOf(conv.T, conv.longIsWide) .. MaxOf(conv.T, conv.longIsWide) :
            conv.valueStr = Decimal(n)
                => ConversionResult.ok /\ ConversionResult.value = n

\* the string of the largest unsigned long long and the string of the
\* smallest short have been converted to those values
C22_Witness ==
    /\ Converted
    /\ \/ /\ conv.T = "unsigned long long"
          /\ conv.valueStr = Decimal(Pow2(LongBits) - 1)
          /\ ConversionResult.value = Pow2(LongBits) - 1
       \/ /\ conv.T = "short"
          /\ conv.valueStr = Decimal(0 - Pow2(ShortBits - 1))
          /\ ConversionResult.value = 0 - Pow2(ShortBits - 1)
    /\ ConversionResult.ok


(***************************************************************************)
(* The classes of the exceptions (Spec)                                    *)
(***************************************************************************)
\* C23: every exception that leaves an operation of the library, the config
\* error of a registration and every parsing error, is caught by a handler
\* for the base class Exception, which can read its message.
C23_EveryExceptionIsAnException ==
    thrown # NoException => HandlerMatches("Exception", thrown.kind)


(***************************************************************************)
(* Dispatch and the registry (Spec, SpecRegistry)                          *)
(***************************************************************************)
\* C25: parse invokes the with-value action of a definition only when the
\* definition takes a value and the no-value action only when it takes none.
\* So parse never raises the "no value needed" bad value, and a value-needed
\* error leaves parse only from its own check for a missing next token: the
\* label is the last token and no definition was invoked for it.
C25_DispatchFollowsNeedsValue ==
    pc \in {"scan", "done", "failed"} =>
        /\ \A k \in 1 .. Len(invoked) :
              invoked[k].def = "option"
                  => invoked[k].hasValue = TakesValue(getOption(invoked[k].index))
        /\ ~(thrown.kind = "BadValue" /\ thrown.message = "no value needed")
        /\ thrown.kind = "ValueNeeded" =>
              /\ argI = argc - 1
              /\ thrown.label = argv[argI]
              /\ \A k \in 1 .. Len(invoked) : invoked[k].tok # argI

\* an option has been given its value, and a later occurrence at the end of
\* the tokens has none
C25_Witness ==
    /\ pc = "failed"
    /\ thrown.kind = "ValueNeeded"
    /\ \E k \in 1 .. Len(invoked) : invoked[k].def = "option" /\ invoked[k].hasValue

\* C26: after any sequence of registrations, the label map and the option
\* list describe the same options: every label of the map has an index
\* within the list, the list entry there is the definition the map holds
\* for the label and carries the label, distinct labels have distinct
\* indexes, and the list is as long as the number of labels.
C26_RegistryConsistent ==
    /\ \A l \in DOMAIN optionMap :
          /\ 0 <= optionMap[l].first
          /\ optionMap[l].first < getOptionCount
          /\ getOption(optionMap[l].first) = optionMap[l].second
          /\ getOption(optionMap[l].first).label = l
    /\ \A l1, l2 \in DOMAIN optionMap :
          l1 # l2 => optionMap[l1].first # optionMap[l2].first
    /\ getOptionCount = Cardinality(DOMAIN optionMap)

\* two labels are registered, the one with index 0 under the later of the
\* two descriptions, and the last registration failed
C26_Witness ==
    /\ getOptionCount = 2
    /\ getOption(0).description = "new option"
    /\ thrown.kind = "ConfigException"

\* C30: the bad value raised when a value is given to an option that takes
\* none names the option as every other bad value does: its label is the
\* label of the option and its value is the token that was given.
C30_NoValueNeededNamesOption ==
    (/\ pc = "applied"
     /\ invoked[1].hasValue
     /\ ~TakesValue(getOption(invoked[1].index)))
        => /\ thrown.kind = "BadValue"
           /\ thrown.label = getOption(invoked[1].index).label
           /\ thrown.value = invoked[1].value


(***************************************************************************)
(* Tokens and repeated calls (SpecTokens)                                  *)
(***************************************************************************)
InParse == pc \in {"scan", "done", "failed"}

Returned == pc \in {"done", "failed"}

\* the invocations of an option together with a value
WithValue == {k \in 1 .. Len(invoked) : invoked[k].def = "option" /\ invoked[k].hasValue}

\* C24: when a token matches an option that takes a value and a next token
\* exists, the next token is the value as it stands, whatever it looks
\* like: no definition is invoked for it as a token of its own, neither an
\* option nor a positional argument, and the scan goes on at the token
\* after it (or ends there with the bad value of this option and token).
C24_ValueTokenConsumedVerbatim ==
    InParse =>
        \A k \in WithValue :
            /\ invoked[k].value = argv[invoked[k].tok + 1]
            /\ \A j \in 1 .. Len(invoked) : invoked[j].tok # invoked[k].tok + 1
            /\ k < Len(invoked) => invoked[k + 1].tok = invoked[k].tok + 2
            /\ k = Len(invoked) =>
                  IF pc = "failed" /\ argI = invoked[k].tok + 1
                  THEN /\ thrown.kind = "BadValue"
                       /\ thrown.label = getOption(invoked[k].index).label
                       /\ thrown.value = argv[argI]
                  ELSE argI >= invoked[k].tok + 2

\* "-" has been the value of an option, parse has returned, and a
\* definition was invoked for the token after it
C24_Witness ==
    /\ pc = "done"
    /\ \E k \in WithValue :
          /\ isLabel(invoked[k].value)
          /\ k < Len(invoked)

\* the invocations of the field-assigning option with a value
FieldAssignments ==
    {k \in WithValue : getOption(invoked[k].index).kind = "MemberOption"}

LastOf(S) == CHOOSE k \in S : \A j \in S : j <= k

\* C27: definitions are applied in the order of the tokens, each occurrence
\* once: the invocations follow the tokens from left to right; when parse
\* returns, every token is the token of exactly one invocation or the value
\* of exactly one; and a field assigned by several occurrences of an option
\* holds the value of the last occurrence.
C27_AppliedInOrderLastWins ==
    /\ InParse =>
          \A k \in 1 .. Len(invoked) - 1 : invoked[k].tok < invoked[k + 1].tok
    /\ pc = "done" =>
          /\ \A t \in 1 .. argc - 1 :
                Cardinality({k \in 1 .. Len(invoked) : invoked[k].tok = t})
                    + Cardinality({k \in WithValue : invoked[k].tok + 1 = t}) = 1
          /\ FieldAssignments # {} =>
                result.i = Format(getOption(0).format,
                                  invoked[LastOf(FieldAssignments)].value).value

\* "-n 5 -n -5" has been parsed: the field holds -5
C27_Witness ==
    /\ pc = "done"
    /\ Len(invoked) = 2
    /\ FieldAssignments = {1, 2}
    /\ invoked[1].value = Token5
    /\ invoked[2].value = TokenNeg5
    /\ result.i = 0 - 5

\* this call has the tokens of the call before it, with options moved
\* among the positional values
AfterInterleaved ==
    /\ Returned
    /\ earlier # NoEarlier
    /\ argv \in Interleaved(earlier.argv)

\* C28: options and positional values may be interleaved freely: moving an
\* option, with its value if it takes one, to another place among the
\* positional tokens does not change the outcome of parse.
C28_InterleavingKeepsOutcome ==
    AfterInterleaved => thrown = earlier.thrown /\ result = earlier.result

\* C28, for tokens that parse: if parse returns a record for a token
\* vector, it returns an equal record for the vector with an option moved
\* among the positional tokens.
C28_InterleavingKeepsRecord ==
    (AfterInterleaved /\ earlier.thrown = NoException)
        => pc = "done" /\ result = earlier.result

\* both calls returned a record in which the option and a positional
\* argument have written
C28_Witness ==
    /\ AfterInterleaved
    /\ earlier.thrown = NoException
    /\ pc = "done"
    /\ result.i # DefaultOptions.i
    /\ result.a # DefaultOptions.a

\* the slot a definition writes
SlotOfOption(pOption) ==
    CASE pOption.kind \in {"MemberOption", "ConstMemberOption"} -> pOption.field
      [] pOption.kind = "FunctionOption" -> "fn"
      [] OTHER -> "flag"

TargetedSlots ==
    {IF invoked[k].def = "option" THEN SlotOfOption(getOption(invoked[k].index))
     ELSE SlotOf(getArgument(invoked[k].index)) : k \in 1 .. Len(invoked)}

====
